---------------------------- MODULE Spec2Model ----------------------------
(* BreathClean route scoring pipeline: breakpoint extraction, environmental *)
(* fetchers, score calculator, result cache and rescoring scheduler.        *)
(*                                                                          *)
(* Coordinates are integers in units of 0.00005 degree, so the source's     *)
(* tolerance of 0.0001 degree is TOL = 2 units.  Scores are integers in     *)
(* tenths of a point (1000 = 100.0).                                        *)
EXTENDS Integers, Sequences, FiniteSets, TLC

VARIABLES
    bp,       \* one computeBreakpoints call: [status, usedCoordinates, result, picked]
    aqiCalc,  \* one calculateAQIScore call: [points, done, out]
    fx,       \* one computeAQI / computeWeather call
    sched,    \* the rescoring scheduler: flag, runs, saved routes
    api,      \* the controllers: cache, score-compute and save-route requests
    calc      \* one call of a pure function of the pipeline: [fn, done, ...]

vars == <<bp, aqiCalc, fx, sched, api, calc>>

Abs(x) == IF x < 0 THEN -x ELSE x
Max(a, b) == IF a > b THEN a ELSE b
Min(a, b) == IF a < b THEN a ELSE b

\* Math.round(num / den) for den > 0: round half up
RoundDiv(num, den) == (2 * num + den) \div (2 * den)

\* no pure-function call under way
CalcIdle == [fn |-> "none", done |-> FALSE]

-----------------------------------------------------------------------------
(* Score calculator, air quality: controllers/score.controller.ts           *)

\* most points of one route the calculator is fed
MaxPts == 3

\* AQI values the provider reports, at and around the bracket limits
AQIValues == {0, 20, 21, 50, 75, 100, 150, 175, 200, 250, 300, 301}

\* point.aqi of one PointAQIResult: null, or an object whose aqi field is a
\* number, undefined, null, "" or the provider's "-"
AQIReadings ==
    [k : {"num"}, v : AQIValues]
    \cup [k : {"null", "undefined", "nullval", "empty", "dash"}, v : {0}]

\* point.aqi && point.aqi.aqi !== undefined && !isNaN(Number(point.aqi.aqi));
\* Number(null) and Number("") are 0, Number("-") is NaN
IsValidAQI(r) == r.k \in {"num", "nullval", "empty"}
NumberOf(r) == IF r.k = "num" THEN r.v ELSE 0

RECURSIVE TotalAQI(_)
TotalAQI(points) ==
    IF points = <<>> THEN 0
    ELSE (IF IsValidAQI(Head(points)) THEN NumberOf(Head(points)) ELSE 0)
         + TotalAQI(Tail(points))

RECURSIVE ValidPoints(_)
ValidPoints(points) ==
    IF points = <<>> THEN 0
    ELSE (IF IsValidAQI(Head(points)) THEN 1 ELSE 0) + ValidPoints(Tail(points))

\* mutant: absence of data scored as clean air
NoDataAQIScorePerfect == [aqi |-> 0, score |-> 1000, category |-> "Excellent"]

\* validPoints === 0
NoDataAQIScore == [aqi |-> 0, score |-> 0, category |-> "Unknown - No Data"]

\* mutant: the score climbs with the AQI inside a bracket
InterpolateRising(base, lo, width, drop, t, n) ==
    RoundDiv(10 * base * width * n + 10 * drop * (t - lo * n), width * n)

\* mutant: a bracket loses only half of its stated drop
InterpolateHalfDrop(base, lo, width, drop, t, n) ==
    RoundDiv(20 * base * width * n - 10 * drop * (t - lo * n), 2 * width * n)

\* Math.round(score * 10) with score = base - ((avgAQI - lo) / width) * drop
\* and avgAQI = t / n
Interpolate(base, lo, width, drop, t, n) ==
    RoundDiv(10 * base * width * n - 10 * drop * (t - lo * n), width * n)

\* aqi and score in tenths; avgAQI = t / n is kept exact
calculateAQIScore(points) ==
    LET t == TotalAQI(points)
        n == ValidPoints(points)
    IN IF n = 0 THEN NoDataAQIScore
       ELSE
         LET aqi == RoundDiv(10 * t, n)
             Lin(base, lo, width, drop) == Interpolate(base, lo, width, drop, t, n)
         IN IF t <= 20 * n
            THEN [aqi |-> aqi, score |-> 1000, category |-> "Excellent"]
            ELSE IF t <= 50 * n
            THEN [aqi |-> aqi, score |-> Lin(100, 20, 30, 20), category |-> "Good"]
            ELSE IF t <= 100 * n
            THEN [aqi |-> aqi, score |-> Lin(80, 50, 50, 30), category |-> "Moderate"]
            ELSE IF t <= 150 * n
            THEN [aqi |-> aqi, score |-> Lin(50, 100, 50, 20),
                  category |-> "Unhealthy for Sensitive Groups"]
            ELSE IF t <= 200 * n
            THEN [aqi |-> aqi, score |-> Lin(30, 150, 50, 20), category |-> "Unhealthy"]
            ELSE [aqi |-> aqi, score |-> Max(0, Lin(10, 200, 100, 10)),
                  category |-> IF t <= 300 * n THEN "Very Unhealthy" ELSE "Hazardous"]

AQICalcIdle == [points |-> <<>>, done |-> FALSE, out |-> NoDataAQIScore]

AQIPointLists == UNION {[1..n -> AQIReadings] : n \in 0..MaxPts}

-----------------------------------------------------------------------------
(* Environmental fetchers: utils/compute/aqi.compute.ts, weather.compute.ts *)

CONCURRENCY_LIMIT == 5
AQI_MAX_RETRIES == 2
\* fetchWeatherForPoint makes a single attempt
WEATHER_MAX_RETRIES == 0
\* slots point_1 .. point_7 of a RoutePoints
MAX_SLOTS == 7

\* failed HTTP attempts the providers may produce during one call
MaxFailures == 3

MaxRetries(kind) == IF kind = "aqi" THEN AQI_MAX_RETRIES ELSE WEATHER_MAX_RETRIES

\* the coordinate stored in slot s of route r (0-based r) of the call's input
PointOf(r, s) == [lat |-> 10 * (r + 1) + s, lon |-> s]

\* what the provider reports at a coordinate
ProviderValue(point) == 100 * point.lat + point.lon

\* a RoutePoints with the given slots defined
RoutePointsOf(r, slots) == [s \in slots |-> PointOf(r, s)]

\* the route lists a call is given: the defined slots of each route
FetchSlotLists ==
    { <<>>,
      << {} >>,
      << {1, 2, 3} >>,
      << {1, 3}, {} >>,
      << {1, 2, 3}, {2} , {1, 2, 3, 4} >>,
      << 1..MAX_SLOTS, 1..(MAX_SLOTS - 1) >> }

FetchRoutes(slotList) ==
    [r \in 1..Len(slotList) |-> RoutePointsOf(r - 1, slotList[r])]

\* the tasks of one route: for (let i = 1; i <= 7; i++) if (point && ...) push
RECURSIVE RouteTasks(_, _, _)
RouteTasks(route, routeIndex, s) ==
    IF s > MAX_SLOTS THEN <<>>
    ELSE (IF s \in DOMAIN route
          THEN << [routeIndex |-> routeIndex, pointKey |-> s, point |-> route[s]] >>
          ELSE <<>>)
         \o RouteTasks(route, routeIndex, s + 1)

\* allPointTasks: routes.forEach((route, routeIndex) => ...)
RECURSIVE AllPointTasks(_, _)
AllPointTasks(routes, r) ==
    IF r > Len(routes) THEN <<>>
    ELSE RouteTasks(routes[r], r - 1, 1) \o AllPointTasks(routes, r + 1)

\* allPointTasks.slice(i, i + CONCURRENCY_LIMIT), as 1-based task numbers
BatchTasks(n, i) == (i + 1)..Min(i + CONCURRENCY_LIMIT, n)

NullData == [ok |-> FALSE, value |-> 0]
IdleTask == [phase |-> "idle", attempt |-> 0, data |-> NullData]

FxIdle ==
    [kind |-> "aqi", apiKey |-> TRUE, routes |-> <<>>, status |-> "init",
     tasks |-> <<>>, i |-> 0, ts |-> <<>>, pointResultsMap |-> <<>>,
     results |-> <<>>, batchLog |-> <<>>, failures |-> 0, error |-> "none"]

\* mutant: the next batch starts as soon as one fetch of the batch has settled
BatchAnySettled(f) ==
    \E t \in BatchTasks(Len(f.tasks), f.i) : f.ts[t].phase = "done"

\* await Promise.all(batch.map(...)): every fetch of the batch has settled
BatchSettled(f) ==
    \A t \in BatchTasks(Len(f.tasks), f.i) : f.ts[t].phase = "done"

\* start the fetches of the batch at i: each task issues its first request
StartBatch(f) ==
    [f EXCEPT !.ts = [t \in 1..Len(f.tasks) |->
                         IF t \in BatchTasks(Len(f.tasks), f.i)
                         THEN [phase |-> "fetch", attempt |-> 0, data |-> NullData]
                         ELSE f.ts[t]],
              !.batchLog = Append(f.batchLog,
                                  Cardinality(BatchTasks(Len(f.tasks), f.i)))]

\* the PointAQIResult / PointWeatherResult of task t
PointResult(f, t) ==
    [point |-> f.tasks[t].pointKey,
     coordinate |-> f.tasks[t].point,
     data |-> f.ts[t].data,
     error |-> IF f.ts[t].data.ok THEN ""
               ELSE IF f.kind = "aqi"
               THEN "Failed to fetch AQI (timeout or API error)"
               ELSE "Failed to fetch weather (timeout or API error)"]

\* mutant: a result is grouped by its position in the batch, not by its tag
GroupKeyByPosition(f, t) == (t - f.i - 1) % Len(f.routes)

\* the routeIndex a batch result is stored under: the task's own tag
GroupKey(f, t) == f.tasks[t].routeIndex

\* batchResults.forEach(({routeIndex, result}) => map.get(routeIndex).push(result)),
\* for the batch results from task t on, in batch order
RECURSIVE StoreBatch(_, _, _)
StoreBatch(f, t, map) ==
    IF t > Min(f.i + CONCURRENCY_LIMIT, Len(f.tasks)) THEN map
    ELSE StoreBatch(f, t + 1,
            [map EXCEPT ![GroupKey(f, t) + 1] = Append(@, PointResult(f, t))])

SuccessfulFetches(points) == Cardinality({p \in 1..Len(points) : points[p].data.ok})

\* routes.map((_, routeIndex) => ({routeIndex, points, totalPoints, successfulFetches}))
FormatResults(routes, map) ==
    [r \in 1..Len(routes) |->
        [routeIndex |-> r - 1,
         points |-> map[r],
         totalPoints |-> Len(map[r]),
         successfulFetches |-> SuccessfulFetches(map[r])]]

-----------------------------------------------------------------------------
(* Rescoring scheduler: utils/scheduler/computeData.scheduler.ts            *)

BATCH_SIZE == 5
\* setTimeout(resolve, 500) between two batches, in ms
BatchPauseMs == 500
\* interval ticks that fire
MaxTicks == 2
\* faults the environment injects into one behaviour (database errors,
\* scoring-provider failures)
MaxTaskFaults == 1

\* lastComputedScore: null
NoScore == -1
\* overallScore values the scoring provider answers with, in tenths
PathwayScores == {875}

NoResult ==
    [success |-> FALSE, routeId |-> 0, routeOptionIndex |-> -1,
     newScore |-> NoScore, error |-> "none"]

\* persisted Route document with n route options, never scored
SavedRoute(id, n) ==
    [id |-> id,
     routes |-> [k \in 1..n |-> [lastComputedScore |-> NoScore, lastComputedAt |-> 0]]]

\* persisted BreakPoint documents of one route option
BreakPointDocs(id, option, n) ==
    {[routeId |-> id, routeOptionIndex |-> option, pointIndex |-> p] : p \in 0..(n - 1)}

EmptyDB == [routes |-> <<>>, breakpoints |-> {}]

\* databases of the tick / startup-run specification: at most 2 tasks
SchedDBs ==
    {EmptyDB,
     [routes |-> <<SavedRoute(1, 1)>>, breakpoints |-> BreakPointDocs(1, 0, 3)],
     [routes |-> <<SavedRoute(1, 2)>>, breakpoints |-> BreakPointDocs(1, 0, 3)]}

\* databases of the single-run specification: 3 tasks (one batch) and 6 tasks
\* (a batch of 5 and a batch of 1); some options have no persisted breakpoints
BatchDBs ==
    {[routes |-> <<SavedRoute(1, 1), SavedRoute(2, 2)>>,
      breakpoints |-> BreakPointDocs(1, 0, 3) \cup BreakPointDocs(2, 1, 4)],
     [routes |-> <<SavedRoute(1, 5), SavedRoute(2, 1)>>,
      breakpoints |-> BreakPointDocs(1, 0, 3) \cup BreakPointDocs(1, 3, 4)
                      \cup BreakPointDocs(2, 0, 3)]}

NewRun(origin) ==
    [origin |-> origin, status |-> "loading", loaded |-> FALSE,
     tasks |-> <<>>, i |-> 0, ts |-> <<>>, results |-> <<>>, timer |-> 0]

SchedIdle ==
    [isRunning |-> FALSE, ticks |-> 0, skipped |-> 0, startup |-> FALSE, faults |-> 0,
     apiKeys |-> TRUE, db |-> EmptyDB, runs |-> <<>>]

\* the controllers before any request: providers up, empty cache
ApiIdle ==
    [providers |-> [weather |-> "ok", aqi |-> "ok"], faults |-> 0, nextUuid |-> 1,
     scoreCache |-> {}, bpCache |-> {}, reqs |-> <<>>, saves |-> <<>>, db |-> EmptyDB,
     nextRouteId |-> 1, deletes |-> <<>>]

\* route.routes.forEach((option, index) => tasks.push(...))
OptionTasks(route) ==
    [k \in 1..Len(route.routes) |->
        [routeId |-> route.id, routeOptionIndex |-> k - 1,
         lastComputedScore |-> route.routes[k].lastComputedScore]]

RECURSIVE BuildTasks(_)
BuildTasks(routes) ==
    IF routes = <<>> THEN <<>>
    ELSE OptionTasks(Head(routes)) \o BuildTasks(Tail(routes))

\* a slice that runs to the end of the task list
SchedBatchToEnd(run) == (run.i + 1)..Len(run.tasks)

\* tasks.slice(i, i + BATCH_SIZE), as task numbers
SchedBatch(run) == (run.i + 1)..Min(run.i + BATCH_SIZE, Len(run.tasks))

\* calls: the provider calls the task has made; readings: what the fetchers
\* resolved with ("some" reading, or "allNull": every point null)
IdleRouteTask ==
    [phase |-> "idle", started |-> 0, score |-> NoScore, result |-> NoResult,
     calls |-> {}, readings |-> "none"]

\* batch.map((task) => processRoute(...)): every task of the batch starts
StartRunBatch(run) ==
    [run EXCEPT !.status = "batch",
                !.ts = [t \in 1..Len(run.tasks) |->
                           IF t \in SchedBatch(run)
                           THEN [run.ts[t] EXCEPT !.phase = "find", !.started = @ + 1]
                           ELSE run.ts[t]]]

FailureResult(task, error) ==
    [success |-> FALSE, routeId |-> task.routeId,
     routeOptionIndex |-> task.routeOptionIndex, newScore |-> NoScore, error |-> error]

SuccessResult(task, score) ==
    [success |-> TRUE, routeId |-> task.routeId,
     routeOptionIndex |-> task.routeOptionIndex, newScore |-> score, error |-> "none"]

\* a processRoute without its catch block: the exception yields no result
CaughtResultLost(task, message) == NoResult

\* catch (error) { return { success: false, ..., error: error.message } }
CaughtResult(task, message) == FailureResult(task, message)

\* processRoute returns
Returned(run, t, result) ==
    [run EXCEPT !.ts[t].phase = "returned", !.ts[t].result = result]

\* breakpoints persisted for the task's route option
TaskBreakpoints(db, task) ==
    {d \in db.breakpoints : /\ d.routeId = task.routeId
                            /\ d.routeOptionIndex = task.routeOptionIndex}

\* an update that sets the fields on every option of the task's route
UpdateEveryOption(db, task, score, at) ==
    [db EXCEPT !.routes =
        [k \in 1..Len(db.routes) |->
            IF db.routes[k].id = task.routeId
            THEN [db.routes[k] EXCEPT !.routes =
                     [o \in 1..Len(db.routes[k].routes) |->
                         [lastComputedScore |-> score, lastComputedAt |-> at]]]
            ELSE db.routes[k]]]

\* Route.updateOne({_id}, {$set: routes.<index>.lastComputedScore / lastComputedAt})
UpdateOne(db, task, score, at) ==
    [db EXCEPT !.routes =
        [k \in 1..Len(db.routes) |->
            IF db.routes[k].id = task.routeId
               /\ task.routeOptionIndex + 1 \in 1..Len(db.routes[k].routes)
            THEN [db.routes[k] EXCEPT !.routes[task.routeOptionIndex + 1] =
                     [lastComputedScore |-> score, lastComputedAt |-> at]]
            ELSE db.routes[k]]]

\* a tick that fires regardless of the flag
TickGuardOff(s) == FALSE

\* if (_isRunning) return;
TickGuard(s) == s.isRunning

\* a tick callback without its finally block
FinishRunFlagKept(s, r) == [s EXCEPT !.runs[r].status = "done"]

\* the run ends; a tick's finally block resets the flag
FinishRun(s, r) ==
    [s EXCEPT !.runs[r].status = "done",
              !.isRunning = IF s.runs[r].origin = "tick" THEN FALSE ELSE @]

\* the setInterval callback up to its first await
TickFires(s) ==
    IF TickGuard(s)
    THEN [s EXCEPT !.ticks = @ + 1, !.skipped = @ + 1]
    ELSE [s EXCEPT !.ticks = @ + 1, !.isRunning = TRUE,
                   !.runs = Append(@, NewRun("tick"))]

-----------------------------------------------------------------------------
(* Breakpoint extractor: utils/compute/breakPoint.compute.ts                *)

\* tolerance 0.0001 degree, in units of 0.00005 degree
TOL == 2
\* at most 3 routes per request
MAX_ROUTES == 3
\* probe offsets 1..9 (while offset < 10)
PROBE_LIMIT == 10

\* longest geometry the model feeds to the extractor
MaxLen == 4

\* [lon, lat] pairs a geometry is built from: (0,0)~(0,1)~(0,2) are chained
\* within tolerance, (0,0) and (0,2) are not, (TOL,1) differs in longitude only
Vertices == {<<0, 0>>, <<0, 1>>, <<0, TOL>>, <<TOL, 1>>}
Geometries == UNION {[1..n -> Vertices] : n \in 2..MaxLen}
Distances == {50, 300}

\* a count that ignores the distance
calculateBreakpointCountFlat(distance) == 3

calculateBreakpointCount(distance) ==
    IF distance < 100 THEN 3
    ELSE IF distance >= 100 /\ distance <= 500
         THEN (IF distance < 300 THEN 3 ELSE 4)
         ELSE (IF distance < 750 THEN 3 ELSE 4)

\* mutant: exact comparison, the tolerance forgotten
areCoordinatesEqualExact(coord1, coord2) ==
    coord1.lat = coord2.lat /\ coord1.lon = coord2.lon

areCoordinatesEqual(coord1, coord2) ==
    /\ Abs(coord1.lat - coord2.lat) < TOL
    /\ Abs(coord1.lon - coord2.lon) < TOL

\* usedCoordinates.some(used => areCoordinatesEqual(c, used))
IsDuplicate(c, used) ==
    \E k \in 1..Len(used) : areCoordinatesEqual(c, used[k])

\* GeoJSON [lon, lat] -> {lat, lon}; idx remembers the geometry index taken
CoordAt(coordinates, idx) ==
    [coord |-> [lat |-> coordinates[idx + 1][2], lon |-> coordinates[idx + 1][1]],
     idx |-> idx]

\* Math.max(1, Math.min(index, totalCoords - 2)), 0-based
SafeIndex(i, count, totalCoords) ==
    Max(1, Min(((i + 1) * totalCoords) \div (count + 1), totalCoords - 2))

\* mutant: each offset is tried backwards first
ProbeSeqBackFirst == [k \in 1..(2 * (PROBE_LIMIT - 1)) |->
                        IF k % 2 = 1 THEN -((k + 1) \div 2) ELSE k \div 2]

\* probe order: safeIndex+1, safeIndex-1, safeIndex+2, ... (offset < 10)
ProbeSeq == [k \in 1..(2 * (PROBE_LIMIT - 1)) |->
                IF k % 2 = 1 THEN (k + 1) \div 2 ELSE -(k \div 2)]

\* first probe position k >= from whose index is in bounds and not a duplicate;
\* 0 when the probes are exhausted
RECURSIVE FirstProbe(_, _, _, _)
FirstProbe(coordinates, safeIndex, used, k) ==
    IF k > Len(ProbeSeq) THEN 0
    ELSE LET altIndex == safeIndex + ProbeSeq[k]
         IN IF /\ altIndex > 0
               /\ altIndex < Len(coordinates) - 1
               /\ ~IsDuplicate(CoordAt(coordinates, altIndex).coord, used)
            THEN k
            ELSE FirstProbe(coordinates, safeIndex, used, k + 1)

\* iteration i of the loop of extractBreakpoints; st = [bps, used]
ExtractStep(coordinates, count, i, st) ==
    LET totalCoords == Len(coordinates)
        safeIndex == SafeIndex(i, count, totalCoords)
        cand == CoordAt(coordinates, safeIndex)
        k == FirstProbe(coordinates, safeIndex, st.used, 1)
        alt == CoordAt(coordinates, safeIndex + ProbeSeq[k])
    IN IF ~IsDuplicate(cand.coord, st.used)
       THEN [bps |-> Append(st.bps, cand),
             used |-> Append(st.used, cand.coord)]
       ELSE IF k # 0
            THEN [bps |-> Append(st.bps, alt),
                  used |-> Append(st.used, alt.coord)]
            ELSE st

\* the loop of extractBreakpoints from iteration i on
RECURSIVE ExtractFrom(_, _, _, _)
ExtractFrom(coordinates, count, i, st) ==
    IF i >= count THEN st
    ELSE ExtractFrom(coordinates, count, i + 1, ExtractStep(coordinates, count, i, st))

extractBreakpoints(coordinates, count, used) ==
    IF Len(coordinates) < 2 THEN [bps |-> <<>>, used |-> used]
    ELSE ExtractFrom(coordinates, count, 0, [bps |-> <<>>, used |-> used])

\* mutant: the slots are numbered from the last breakpoint found
RouteBreakpointsOfReversed(bps) == [s \in 1..Len(bps) |-> bps[Len(bps) + 1 - s].coord]

\* routeBreakpoints[`point_${index + 1}`] = coord: slots 1..k of the route
RouteBreakpointsOf(bps) == [s \in 1..Len(bps) |-> bps[s].coord]

\* one iteration of "for (const route of routes)" on the call's state st:
\* status is "running" | "returned" | "threw"; picked records, for the route
\* processed last, the geometry index each breakpoint was taken from
RouteStep(route, st) ==
    IF ~route.hasGeometry \/ Len(route.coordinates) < 2
    THEN [st EXCEPT !.status = "threw"]
    ELSE LET ex == extractBreakpoints(route.coordinates,
                                      calculateBreakpointCount(route.distance),
                                      st.usedCoordinates)
         IN [status |-> "running",
             usedCoordinates |-> ex.used,
             result |-> Append(st.result, RouteBreakpointsOf(ex.bps)),
             picked |-> [idx |-> [s \in 1..Len(ex.bps) |-> ex.bps[s].idx],
                         totalCoords |-> Len(route.coordinates)]]

BPStart ==
    [status |-> "running", usedCoordinates |-> <<>>, result |-> <<>>,
     picked |-> [idx |-> <<>>, totalCoords |-> 0]]

RECURSIVE RoutesFrom(_, _, _)
RoutesFrom(routes, k, st) ==
    IF st.status = "threw" THEN st
    ELSE IF k > Len(routes) THEN [st EXCEPT !.status = "returned"]
    ELSE RoutesFrom(routes, k + 1, RouteStep(routes[k], st))

\* a call without the limit of 3 routes
computeBreakpointsUnbounded(routes) ==
    IF Len(routes) = 0
    THEN [BPStart EXCEPT !.status = "threw"]
    ELSE RoutesFrom(routes, 1, BPStart)

\* the whole call on a given route list
computeBreakpoints(routes) ==
    IF Len(routes) = 0 \/ Len(routes) > MAX_ROUTES
    THEN [BPStart EXCEPT !.status = "threw"]
    ELSE RoutesFrom(routes, 1, BPStart)

\* routes the extractor is fed: valid geometries, a missing one, a 1-pair one
BPRoutes ==
    [distance : Distances, hasGeometry : {TRUE}, coordinates : Geometries]
    \cup [distance : {50}, hasGeometry : {FALSE}, coordinates : {<<>>}]
    \cup [distance : {50}, hasGeometry : {TRUE}, coordinates : {<< <<0, 0>> >>}]

BPInit ==
    /\ bp = BPStart /\ aqiCalc = AQICalcIdle /\ fx = FxIdle /\ sched = SchedIdle
    /\ api = ApiIdle /\ calc = CalcIdle

\* routes.length === 0 or routes.length > 3: throws before any route is read
BPRejectCount ==
    /\ bp.status = "running"
    /\ Len(bp.result) = 0
    /\ bp' = [bp EXCEPT !.status = "threw"]
    /\ UNCHANGED <<aqiCalc, fx, sched, api, calc>>

\* one iteration of the route loop; the request's next route is drawn here
BPProcessRoute ==
    /\ bp.status = "running"
    /\ Len(bp.result) < MAX_ROUTES
    /\ \E route \in BPRoutes : bp' = RouteStep(route, bp)
    /\ UNCHANGED <<aqiCalc, fx, sched, api, calc>>

\* the request had 1..3 routes and the loop is over: return result
BPReturn ==
    /\ bp.status = "running"
    /\ Len(bp.result) \in 1..MAX_ROUTES
    /\ bp' = [bp EXCEPT !.status = "returned"]
    /\ UNCHANGED <<aqiCalc, fx, sched, api, calc>>

BPNext == BPRejectCount \/ BPProcessRoute \/ BPReturn

SpecBreakpoints == BPInit /\ [][BPNext]_vars

\* all breakpoints of the returned result, route by route
RECURSIVE Flatten(_)
Flatten(rs) == IF rs = <<>> THEN <<>> ELSE Head(rs) \o Flatten(Tail(rs))

-----------------------------------------------------------------------------
(* Score-compute and save-route controllers with the result cache:          *)
(* src/unnamed/part_001                                                      *)

\* requests that arrive, score-compute and save-route together
MaxRequests == 2
\* cache or database calls that fail, and cache entries whose TTL runs out,
\* in one behaviour
MaxStoreEvents == 1
\* save-route and delete-route requests of a run of one against the other
MaxSaves == 1
MaxDeletes == 2

\* the providers as seen by computeWeather / computeAQI during one behaviour:
\* a key is not configured (the call rejects), every point fetch fails (null
\* readings), or the fetches succeed; here the weather key is missing, the
\* AQI key is missing, or both keys are set, the weather fetches fail and the
\* AQI fetches succeed
Providers ==
    {[weather |-> "nokey", aqi |-> "ok"], [weather |-> "ok", aqi |-> "nokey"],
     [weather |-> "null", aqi |-> "ok"]}

\* a line of 9 vertices, TOL apart: [lon, lat] pairs
LineGeometry == [k \in 1..9 |-> <<TOL * k, 0>>]

\* a second line of 9 vertices, away from the first
SecondLine == [k \in 1..9 |-> <<TOL * k, 10 * TOL>>]

RouteData(distance, mode, coordinates) ==
    [distance |-> distance, hasDistance |-> TRUE, duration |-> 10, hasDuration |-> TRUE,
     travelMode |-> mode, hasGeometry |-> TRUE, coordinates |-> coordinates,
     lastComputedScore |-> NoScore]

\* req.body of score-compute: routes is an array ("array"), absent
\* ("undefined") or some other value ("object"); traffic is 0 for every route
ScoreBody(routes) ==
    [routesIs |-> "array", routes |-> routes, traffic |-> [i \in 1..Len(routes) |-> 0]]

\* request bodies: a route; the same route with another distance; a route
\* with a 1-pair geometry
ScoreBodies ==
    {ScoreBody(<<RouteData(50, "driving", LineGeometry)>>),
     ScoreBody(<<RouteData(300, "driving", LineGeometry)>>),
     ScoreBody(<<RouteData(50, "driving", << <<0, 0>> >>)>>)}

\* bodies of a request on an empty cache: routes undefined, not an array,
\* empty, four routes, a route without distance / duration / routeGeometry at
\* index 0 / 1 / 2, and bodies that pass validation (one route, a route of
\* distance 0, two routes, three routes, a 1-pair geometry, a geometry whose
\* coordinates array is empty)
ValidationBodies ==
    LET ok == RouteData(50, "driving", LineGeometry)
        far == RouteData(300, "walking", SecondLine)
    IN {[ScoreBody(<<>>) EXCEPT !.routesIs = "undefined"],
        [ScoreBody(<<>>) EXCEPT !.routesIs = "object"],
        ScoreBody(<<>>),
        ScoreBody(<<ok, far, ok, far>>),
        ScoreBody(<<[ok EXCEPT !.hasDistance = FALSE]>>),
        ScoreBody(<<ok, [far EXCEPT !.hasDuration = FALSE]>>),
        ScoreBody(<<ok, far, [ok EXCEPT !.hasGeometry = FALSE, !.coordinates = <<>>]>>),
        ScoreBody(<<ok>>),
        ScoreBody(<<far, ok>>),
        ScoreBody(<<RouteData(0, "driving", LineGeometry)>>),
        ScoreBody(<<ok, far, ok>>),
        ScoreBody(<<RouteData(50, "driving", << <<0, 0>> >>)>>),
        ScoreBody(<<ok, RouteData(300, "driving", <<>>)>>)}

\* save-route bodies; searchId is absent, not a UUID, or the UUID numbered id
SaveBodies ==
    {[routes |-> <<RouteData(50, "driving", LineGeometry)>>,
      searchId |-> [kind |-> "none", id |-> 0]],
     [routes |-> <<RouteData(50, "driving", LineGeometry)>>,
      searchId |-> [kind |-> "uuid", id |-> 1]],
     [routes |-> <<RouteData(50, "driving", << <<0, 0>> >>)>>,
      searchId |-> [kind |-> "malformed", id |-> 0]]}

\* the route lists of the request bodies, and computeBreakpoints of each
\* (computed once)
\* submissions of 1 to 5 route options: without searchId (1, 2, 3, 4 and 5
\* options, and one option with a 1-pair geometry) and with the searchId of
\* an earlier search (1 and 2 options)
SaveCases ==
    LET ok == RouteData(50, "driving", LineGeometry)
        far == RouteData(300, "walking", SecondLine)
        none == [kind |-> "none", id |-> 0]
        known == [kind |-> "uuid", id |-> 1]
    IN {[routes |-> <<ok>>, searchId |-> none],
        [routes |-> <<RouteData(50, "driving", << <<0, 0>> >>)>>, searchId |-> none],
        [routes |-> <<far, ok>>, searchId |-> none],
        [routes |-> <<ok, far, ok>>, searchId |-> none],
        [routes |-> <<ok, far, ok, far>>, searchId |-> none],
        [routes |-> <<ok, far, ok, far, ok>>, searchId |-> none],
        [routes |-> <<ok>>, searchId |-> known],
        [routes |-> <<far, ok>>, searchId |-> known]}

\* the route lists of the searches whose breakpoints the cache may hold
\* under searchId 1
SearchedRoutes ==
    {<<RouteData(50, "driving", LineGeometry)>>,
     <<RouteData(300, "walking", SecondLine), RouteData(50, "driving", LineGeometry)>>}

RequestRoutes ==
    {body.routes : body \in ScoreBodies \cup ValidationBodies \cup SaveBodies \cup SaveCases}
BreakpointsOf == [routes \in RequestRoutes |-> computeBreakpoints(routes)]

\* a validation without the loop over the routes (lines 229-243)
ValidationErrorNoFieldCheck(body) ==
    IF body.routesIs # "array" \/ Len(body.routes) = 0
    THEN "Invalid request. 'routes' array is required and cannot be empty."
    ELSE IF Len(body.routes) > MAX_ROUTES THEN "Maximum 3 routes allowed."
    ELSE "none"

\* lines 213-243: the 400 message, "none" for a request that passes
ValidationError(body) ==
    IF body.routesIs # "array" \/ Len(body.routes) = 0
    THEN "Invalid request. 'routes' array is required and cannot be empty."
    ELSE IF Len(body.routes) > MAX_ROUTES THEN "Maximum 3 routes allowed."
    ELSE IF \E i \in 1..Len(body.routes) :
               \/ ~body.routes[i].hasDistance
               \/ ~body.routes[i].hasDuration
               \/ ~body.routes[i].hasGeometry
    THEN "Invalid route data at index i. Missing required fields."
    ELSE "none"

\* traffic[i] || 0
TrafficAt(traffic, i) == IF i <= Len(traffic) THEN traffic[i] ELSE 0

\* a key that also covers the route's distance
generateScoreCacheKeyWithDistance(routes, traffic) ==
    [i \in 1..Len(routes) |->
        [coords |-> routes[i].coordinates, mode |-> routes[i].travelMode,
         traffic |-> TrafficAt(traffic, i), distance |-> routes[i].distance]]

\* the data hashed into the key; SHA-256 is taken to be injective
generateScoreCacheKey(routes, traffic) ==
    [i \in 1..Len(routes) |->
        [coords |-> routes[i].coordinates, mode |-> routes[i].travelMode,
         traffic |-> TrafficAt(traffic, i)]]

\* redis.get / redis.set on a store of [key, value] entries
Lookup(store, key) == {e \in store : e.key = key}
Stored(store, key, value) ==
    {e \in store : e.key # key} \cup {[key |-> key, value |-> value]}

NoData == [routes |-> <<>>]
NoResponse ==
    [status |-> 0, message |-> "none", data |-> NoData, searchId |-> 0, cached |-> FALSE]

Error500 ==
    [NoResponse EXCEPT !.status = 500, !.message = "Failed to compute route scores"]

\* a catch block that reports the error it caught
CaughtLeaks(error) == [Error500 EXCEPT !.message = error]

\* lines 479-483: catch { res.status(500).json(...) }, whatever was thrown
Caught(error) == Error500

\* responseData.data.routes of a fresh computation: per route the request's
\* own fields, the number of breakpoints and the readings that were scored
ScoreData(body, breakpoints, weather, aqi) ==
    [routes |-> [i \in 1..Len(body.routes) |->
        [routeIndex |-> i - 1,
         distance |-> body.routes[i].distance,
         duration |-> body.routes[i].duration,
         travelMode |-> body.routes[i].travelMode,
         breakpointCount |-> Len(breakpoints[i]),
         weather |-> weather,
         aqi |-> aqi,
         traffic |-> TrafficAt(body.traffic, i),
         lastComputedScore |-> body.routes[i].lastComputedScore]]]

\* point fetches one computeWeather / computeAQI call issues
PointCount(breakpoints) == Len(Flatten(breakpoints))

NewScoreRequest(body) ==
    [body |-> body, pc |-> "get",
     cacheKey |-> generateScoreCacheKey(body.routes, body.traffic),
     owed |-> FALSE, readFailed |-> FALSE, expired |-> FALSE,
     cacheOps |-> 0, extractions |-> 0,
     breakpoints |-> <<>>, weather |-> "none", aqi |-> "none", fetches |-> 0,
     data |-> NoData, searchId |-> 0,
     sets |-> [score |-> "none", bps |-> "none"], resp |-> NoResponse]

NewSaveRequest(body) ==
    [body |-> body, pc |-> "create", routeId |-> 0, readFailed |-> FALSE,
     hit |-> FALSE, dbFailed |-> FALSE, bps |-> <<>>, docs |-> {}, status |-> 0]

\* res.json / res.status(...).json of a score-compute request
Respond(a, q, resp) == [a EXCEPT !.reqs[q].pc = "done", !.reqs[q].resp = resp]

\* lines 276-277: computeBreakpoints, then the providers are awaited
FreshStart(a, q) ==
    LET call == BreakpointsOf[a.reqs[q].body.routes]
        b == [a EXCEPT !.reqs[q].extractions = @ + 1]
    IN IF call.status = "threw"
       THEN Respond(b, q, Caught("Insufficient coordinates in route geometry (minimum 2 required)"))
       ELSE [b EXCEPT !.reqs[q].pc = "weather", !.reqs[q].breakpoints = call.result]

\* a controller without the inner try / catch around the cache read
ScoreReadThrowFails(a, q) ==
    Respond([a EXCEPT !.reqs[q].readFailed = TRUE], q, Caught("redis get failed"))

\* catch { /* redis get failed: skip cache, compute fresh */ }
ScoreReadThrows(a, q) ==
    FreshStart([a EXCEPT !.reqs[q].readFailed = TRUE], q)

\* an identifier source that repeats itself
uuidv4Constant(a) == 1

\* uuidv4(): an identifier not handed out before
uuidv4(a) == a.nextUuid

\* lines 248-259: cache hit; a throw of computeBreakpoints is caught by the
\* catch of the cache read and the request goes on to compute fresh
ScoreHit(a, q, value) ==
    LET call == BreakpointsOf[a.reqs[q].body.routes]
        minted == [a EXCEPT !.nextUuid = @ + 1, !.reqs[q].extractions = @ + 1]
    IN IF call.status = "threw" THEN FreshStart(minted, q)
       ELSE [minted EXCEPT !.reqs[q].pc = "hitSet",
                           !.reqs[q].cacheOps = @ + 1,
                           !.reqs[q].searchId = uuidv4(a),
                           !.reqs[q].breakpoints = call.result,
                           !.reqs[q].data = value,
                           !.reqs[q].sets.bps = "pending"]

\* same route geometries, travel modes and traffic values
SameInputs(b1, b2) ==
    /\ Len(b1.routes) = Len(b2.routes)
    /\ \A i \in 1..Len(b1.routes) :
         /\ b1.routes[i].hasGeometry = b2.routes[i].hasGeometry
         /\ b1.routes[i].coordinates = b2.routes[i].coordinates
         /\ b1.routes[i].travelMode = b2.routes[i].travelMode
    /\ b1.traffic = b2.traffic

\* request q with the given body is decided now: another request with the
\* same inputs was answered 200, its score-cache write succeeded and the TTL
\* of that write has not run out
Owed(a, q, body) ==
    \E p \in 1..Len(a.reqs) :
        /\ p # q
        /\ a.reqs[p].pc = "done"
        /\ a.reqs[p].resp.status = 200
        /\ a.reqs[p].sets.score = "ok"
        /\ ~a.reqs[p].expired
        /\ SameInputs(a.reqs[p].body, body)

\* lines 593-619: one document per point_N of each route's breakpoints
DocsOf(routeId, bps) ==
    UNION {{[routeId |-> routeId, routeOptionIndex |-> r - 1, pointIndex |-> s - 1,
             coordinates |-> <<bps[r][s].lon, bps[r][s].lat>>] :
                s \in 1..Len(bps[r])} : r \in 1..Len(bps)}

\* a save-route that never recomputes
BreakpointsToSaveCacheOnly(routes, fromCache) == fromCache

\* lines 580-588: recompute when nothing came from the cache; a throw of
\* computeBreakpoints is caught and leaves the list empty
BreakpointsToSave(routes, fromCache) ==
    IF Len(fromCache) > 0 THEN fromCache
    ELSE LET call == BreakpointsOf[routes]
         IN IF call.status = "threw" THEN <<>> ELSE call.result

\* lines 580-626 up to the next await: the documents are built and
\* insertMany is awaited, or 201 is sent when there is nothing to insert
SaveAfterLookup(a, s, fromCache) ==
    LET bps == BreakpointsToSave(a.saves[s].body.routes, fromCache)
        docs == DocsOf(a.saves[s].routeId, bps)
    IN IF docs # {}
       THEN [a EXCEPT !.saves[s].pc = "insert", !.saves[s].bps = bps,
                      !.saves[s].hit = Len(fromCache) > 0,
                      !.saves[s].docs = docs]
       ELSE [a EXCEPT !.saves[s].pc = "done", !.saves[s].bps = bps,
                      !.saves[s].hit = Len(fromCache) > 0,
                      !.saves[s].status = 201]

\* catch { /* redis miss: fall through to recompute */ }
SaveReadThrows(a, s) ==
    SaveAfterLookup([a EXCEPT !.saves[s].readFailed = TRUE], s, <<>>)

-----------------------------------------------------------------------------
(* calculateAQIScore applied to one route's AQI points                      *)

AQIInit ==
    /\ aqiCalc \in [points : AQIPointLists, done : {FALSE}, out : {NoDataAQIScore}]
    /\ bp = BPStart
    /\ fx = FxIdle
    /\ sched = SchedIdle /\ api = ApiIdle /\ calc = CalcIdle

AQICalculate ==
    /\ ~aqiCalc.done
    /\ aqiCalc' = [aqiCalc EXCEPT !.done = TRUE,
                                  !.out = calculateAQIScore(aqiCalc.points)]
    /\ UNCHANGED <<bp, fx, sched, api, calc>>

AQINext == AQICalculate

SpecAQIScore == AQIInit /\ [][AQINext]_vars

\* C3: when no point of the route carries a reading (all null, or no points),
\* the result is aqi 0, score 0, "Unknown - No Data", and never score 100.
C3_NoDataFloor ==
    (aqiCalc.done /\ \A p \in 1..Len(aqiCalc.points) : aqiCalc.points[p].k = "null")
        => /\ aqiCalc.out.aqi = 0
           /\ aqiCalc.out.score = 0
           /\ aqiCalc.out.category = "Unknown - No Data"
           /\ aqiCalc.out.score # 1000

\* a route of several points, every reading null, has been scored
C3_Witness ==
    /\ aqiCalc.done
    /\ Len(aqiCalc.points) >= 2
    /\ \A p \in 1..Len(aqiCalc.points) : aqiCalc.points[p].k = "null"

-----------------------------------------------------------------------------
(* One computeAQI / computeWeather call                                     *)

FxInit ==
    /\ \E kind \in {"aqi", "weather"}, apiKey \in BOOLEAN, slotList \in FetchSlotLists :
         fx = [FxIdle EXCEPT !.kind = kind, !.apiKey = apiKey,
                             !.routes = FetchRoutes(slotList)]
    /\ bp = BPStart
    /\ aqiCalc = AQICalcIdle
    /\ sched = SchedIdle /\ api = ApiIdle /\ calc = CalcIdle

\* the loop "for (i = 0; i < allPointTasks.length; i += CONCURRENCY_LIMIT)" at
\* its test: start the batch at i, or format the results and resolve
ContinueLoop(f) ==
    IF f.i < Len(f.tasks)
    THEN [StartBatch(f) EXCEPT !.status = "fetching"]
    ELSE [f EXCEPT !.status = "resolved",
                   !.results = FormatResults(f.routes, f.pointResultsMap)]

\* mutant: process.env.*_API_KEY is not looked at
InputErrorKeyUnchecked(f) ==
    IF Len(f.routes) = 0 THEN "No routes provided" ELSE "none"

\* the two input checks at the head of computeAQI / computeWeather, in the
\* order of the code: the error thrown, or "none"
InputError(f) ==
    IF Len(f.routes) = 0 THEN "No routes provided"
    ELSE IF ~f.apiKey THEN "API_KEY not configured"
    ELSE "none"

\* the call up to its first await: input checks, task list, first batch
FxStart ==
    /\ fx.status = "init"
    /\ fx' = IF InputError(fx) # "none"
             THEN [fx EXCEPT !.status = "rejected", !.error = InputError(fx)]
             ELSE LET tasks == AllPointTasks(fx.routes, 1)
                  IN ContinueLoop(
                       [fx EXCEPT !.tasks = tasks,
                                  !.ts = [t \in 1..Len(tasks) |-> IdleTask],
                                  !.pointResultsMap = [r \in 1..Len(fx.routes) |-> <<>>],
                                  !.i = 0])
    /\ UNCHANGED <<bp, aqiCalc, sched, api, calc>>

FetchOutcomes == {"ok", "non2xx", "invalid", "throw"}

\* mutant: the error of the last attempt escapes fetchAQIForPoint
AfterAttemptRethrow(kind, task, outcome, point) ==
    IF outcome = "ok"
    THEN [task EXCEPT !.phase = "done", !.data = [ok |-> TRUE, value |-> ProviderValue(point)]]
    ELSE IF outcome \in {"non2xx", "invalid"}
    THEN [task EXCEPT !.phase = "done", !.data = NullData]
    ELSE IF task.attempt < MaxRetries(kind)
    THEN [task EXCEPT !.phase = "backoff"]
    ELSE [task EXCEPT !.phase = "rejected"]

\* a fetch whose last failed attempt never settles its promise
AfterAttemptHangs(kind, task, outcome, point) ==
    IF outcome = "ok"
    THEN [task EXCEPT !.phase = "done", !.data = [ok |-> TRUE, value |-> ProviderValue(point)]]
    ELSE IF outcome \in {"non2xx", "invalid"}
    THEN [task EXCEPT !.phase = "done", !.data = NullData]
    ELSE IF task.attempt < MaxRetries(kind)
    THEN [task EXCEPT !.phase = "backoff"]
    ELSE [task EXCEPT !.phase = "pending"]

\* one attempt of fetchAQIForPoint / fetchWeatherForPoint ends:
\* ok: a reading; non2xx (!response.ok) and invalid (status !== "ok", no data,
\* no main): return null; throw (network error, abort on timeout, malformed
\* JSON): retry after a backoff while retries remain, else return null
AfterAttempt(kind, task, outcome, point) ==
    IF outcome = "ok"
    THEN [task EXCEPT !.phase = "done", !.data = [ok |-> TRUE, value |-> ProviderValue(point)]]
    ELSE IF outcome \in {"non2xx", "invalid"}
    THEN [task EXCEPT !.phase = "done", !.data = NullData]
    ELSE IF task.attempt < MaxRetries(kind)
    THEN [task EXCEPT !.phase = "backoff"]
    ELSE [task EXCEPT !.phase = "done", !.data = NullData]

FxAttemptSettles ==
    /\ fx.status = "fetching"
    /\ \E t \in 1..Len(fx.tasks), outcome \in FetchOutcomes :
         /\ fx.ts[t].phase = "fetch"
         /\ outcome # "ok" => fx.failures < MaxFailures
         /\ LET after == AfterAttempt(fx.kind, fx.ts[t], outcome, fx.tasks[t].point)
            IN fx' = [fx EXCEPT !.ts[t] = after,
                                !.failures = IF outcome = "ok" THEN @ ELSE @ + 1,
                                !.status = IF after.phase = "rejected"
                                           THEN "rejected" ELSE @]
    /\ UNCHANGED <<bp, aqiCalc, sched, api, calc>>

\* setTimeout(resolve, 500 * (attempt + 1)) fires: the next attempt is issued
FxBackoffElapsed ==
    /\ fx.status = "fetching"
    /\ \E t \in 1..Len(fx.tasks) :
         /\ fx.ts[t].phase = "backoff"
         /\ fx' = [fx EXCEPT !.ts[t] = [@ EXCEPT !.phase = "fetch",
                                                 !.attempt = @ + 1]]
    /\ UNCHANGED <<bp, aqiCalc, sched, api, calc>>

\* Promise.all of the batch resolves: store its results, then go on with the loop
FxBatchResolved ==
    /\ fx.status = "fetching"
    /\ BatchSettled(fx)
    /\ fx' = ContinueLoop(
               [fx EXCEPT !.pointResultsMap = StoreBatch(fx, fx.i + 1, fx.pointResultsMap),
                          !.i = fx.i + CONCURRENCY_LIMIT])
    /\ UNCHANGED <<bp, aqiCalc, sched, api, calc>>

FxNext == FxStart \/ FxAttemptSettles \/ FxBackoffElapsed \/ FxBatchResolved

SpecFetch == FxInit /\ [][FxNext]_vars

-----------------------------------------------------------------------------
(* Claims on the fetchers                                                   *)

FxInFlight == {t \in 1..Len(fx.tasks) : fx.ts[t].phase \in {"fetch", "backoff"}}
BatchNo(t) == (t - 1) \div CONCURRENCY_LIMIT

\* C4: fetches are issued in ceil(n/5) batches in task order, each of 5 except
\* possibly the last; no fetch of a later batch starts before every fetch of
\* the earlier batches has settled; at most 5 fetches are in flight.
C4_Batching ==
    LET n == Len(fx.tasks)
    IN /\ Cardinality(FxInFlight) <= CONCURRENCY_LIMIT
       /\ \A t \in 1..n :
            fx.ts[t].phase # "idle" =>
                \A s \in 1..(CONCURRENCY_LIMIT * BatchNo(t)) : fx.ts[s].phase = "done"
       /\ \A b \in 1..Len(fx.batchLog) :
            fx.batchLog[b] = Min(CONCURRENCY_LIMIT, n - CONCURRENCY_LIMIT * (b - 1))
       /\ \A t \in 1..n :
            (fx.ts[t].phase # "idle") <=> (t <= CONCURRENCY_LIMIT * Len(fx.batchLog))
       /\ fx.status = "resolved" =>
            Len(fx.batchLog) = (n + CONCURRENCY_LIMIT - 1) \div CONCURRENCY_LIMIT

\* a call with 13 point tasks has resolved after batches of 5, 5 and 3
C4_Witness ==
    /\ fx.status = "resolved"
    /\ Len(fx.tasks) = 13
    /\ fx.batchLog = <<5, 5, 3>>

\* C5: whatever the completion order, the result has one entry per input route,
\* result[i].routeIndex = i, points = the defined slots of route i in slot order,
\* each with its own coordinate and the reading fetched for that coordinate;
\* totalPoints and successfulFetches count the points and the non-null readings.
C5_Attribution ==
    fx.status = "resolved" =>
      /\ Len(fx.results) = Len(fx.routes)
      /\ \A r \in 1..Len(fx.routes) :
           LET res == fx.results[r]
               route == fx.routes[r]
           IN /\ res.routeIndex = r - 1
              /\ Len(res.points) = Cardinality(DOMAIN route)
              /\ \A k \in 1..Len(res.points) :
                   /\ res.points[k].point \in DOMAIN route
                   /\ res.points[k].coordinate = route[res.points[k].point]
                   /\ res.points[k].data.ok =>
                        res.points[k].data.value = ProviderValue(route[res.points[k].point])
                   /\ \A l \in 1..Len(res.points) :
                        k < l => res.points[k].point < res.points[l].point
              /\ res.totalPoints = Cardinality(DOMAIN route)
              /\ res.successfulFetches =
                   Cardinality({k \in 1..Len(res.points) : res.points[k].data.ok})

\* a call over three routes of different sizes resolved, with a failed point
\* and a fetched one in the same route
C5_Witness ==
    /\ fx.status = "resolved"
    /\ Len(fx.routes) = 3
    /\ \E r \in 1..3 :
         /\ fx.results[r].successfulFetches >= 1
         /\ fx.results[r].successfulFetches < fx.results[r].totalPoints

\* C6: a point whose fetch fails is recorded with a null reading and an error
\* annotation, every other point still gets its result, and no per-point
\* failure makes the call reject (it rejects only on its input checks).
C6_PointFailureContained ==
    /\ fx.status = "rejected" => (Len(fx.routes) = 0 \/ ~fx.apiKey)
    /\ fx.status = "fetching" => ENABLED FxNext
    /\ fx.status = "resolved" =>
         /\ \A t \in 1..Len(fx.tasks) :
              \E k \in 1..Len(fx.results[fx.tasks[t].routeIndex + 1].points) :
                 LET p == fx.results[fx.tasks[t].routeIndex + 1].points[k]
                 IN /\ p.point = fx.tasks[t].pointKey
                    /\ p.data = fx.ts[t].data
                    /\ (~p.data.ok) <=> (p.error # "")
                    /\ (~p.data.ok) => p.data = NullData

\* an AQI call resolved although one point failed on all three attempts, and
\* another point of the call carries its reading
C6_Witness ==
    /\ fx.status = "resolved"
    /\ fx.kind = "aqi"
    /\ \E t, u \in 1..Len(fx.tasks) :
         /\ fx.ts[t].attempt = AQI_MAX_RETRIES
         /\ ~fx.ts[t].data.ok
         /\ fx.ts[u].data.ok

-----------------------------------------------------------------------------
(* Claims on the breakpoint extractor                                       *)

AllBreakpoints == Flatten(bp.result)

\* C1: any two distinct breakpoints of a returned result, within one route or
\* across routes, differ by at least the tolerance in latitude or in longitude.
C1_BreakpointsPairwiseDistinct ==
    bp.status = "returned" =>
        \A p, q \in 1..Len(AllBreakpoints) :
            p # q =>
                \/ Abs(AllBreakpoints[p].lat - AllBreakpoints[q].lat) >= TOL
                \/ Abs(AllBreakpoints[p].lon - AllBreakpoints[q].lon) >= TOL

\* three routes returned, each with a breakpoint, after a collision was resolved
\* by dropping or probing (fewer breakpoints than nominal in some route)
C1_Witness ==
    /\ bp.status = "returned"
    /\ Len(bp.result) = MAX_ROUTES
    /\ \A r \in 1..MAX_ROUTES : Len(bp.result[r]) >= 1
    /\ \E r \in 1..MAX_ROUTES : Len(bp.result[r]) < 3

\* C2: no breakpoint is taken from index 0 or index len-1 of its route's
\* geometry, for every geometry of at least 2 pairs.
C2_NoBoundaryVertex ==
    \A s \in 1..Len(bp.picked.idx) :
        bp.picked.idx[s] >= 1 /\ bp.picked.idx[s] <= bp.picked.totalCoords - 2


\* the boundary exclusion does hold for geometries of 3 pairs or more
C2_InteriorWhenThreeOrMore ==
    bp.picked.totalCoords >= 3 => C2_NoBoundaryVertex

-----------------------------------------------------------------------------
(* The scheduler: interval ticks, the startup run, runBatchScoring          *)

SchedInit ==
    /\ \E db \in SchedDBs, keys \in BOOLEAN :
         sched = [SchedIdle EXCEPT !.db = db, !.apiKeys = keys]
    /\ bp = BPStart
    /\ aqiCalc = AQICalcIdle
    /\ fx = FxIdle
    /\ api = ApiIdle /\ calc = CalcIdle

BatchRunInit ==
    /\ \E db \in BatchDBs, keys \in BOOLEAN :
         sched = [SchedIdle EXCEPT !.db = db, !.apiKeys = keys]
    /\ bp = BPStart
    /\ aqiCalc = AQICalcIdle
    /\ fx = FxIdle
    /\ api = ApiIdle /\ calc = CalcIdle

\* setInterval callback
SchedTick ==
    /\ sched.ticks < MaxTicks
    /\ sched' = TickFires(sched)
    /\ UNCHANGED <<bp, aqiCalc, fx, api, calc>>

\* runManualBatchScoring, called once when the process has started
SchedStartup ==
    /\ ~sched.startup
    /\ sched' = [sched EXCEPT !.startup = TRUE, !.runs = Append(@, NewRun("startup"))]
    /\ UNCHANGED <<bp, aqiCalc, fx, api, calc>>

\* await Route.find({}).lean() settles; the task list is built and the first
\* batch starts
SchedRoutesLoaded ==
    /\ \E r \in 1..Len(sched.runs), ok \in BOOLEAN :
         /\ sched.runs[r].status = "loading"
         /\ ~ok => sched.faults < MaxTaskFaults
         /\ sched' =
              IF ~ok THEN FinishRun([sched EXCEPT !.faults = @ + 1], r)
              ELSE IF sched.db.routes = <<>>
              THEN FinishRun([sched EXCEPT !.runs[r].loaded = TRUE], r)
              ELSE LET tasks == BuildTasks(sched.db.routes)
                   IN [sched EXCEPT !.runs[r] =
                          StartRunBatch([@ EXCEPT !.loaded = TRUE, !.tasks = tasks,
                                                  !.ts = [t \in 1..Len(tasks) |-> IdleRouteTask]])]
    /\ UNCHANGED <<bp, aqiCalc, fx, api, calc>>

\* processRoute: await BreakPoint.find(...).sort(...) settles
SchedBreakpointsFound ==
    /\ \E r \in 1..Len(sched.runs) :
         \E t \in 1..Len(sched.runs[r].tasks), ok \in BOOLEAN :
            LET run == sched.runs[r]
                task == run.tasks[t]
            IN /\ run.ts[t].phase = "find"
               /\ ~ok => sched.faults < MaxTaskFaults
               /\ sched' =
                    IF ~ok
                    THEN [sched EXCEPT !.faults = @ + 1,
                             !.runs[r] = Returned(run, t, CaughtResult(task, "db error"))]
                    ELSE IF TaskBreakpoints(sched.db, task) = {}
                    THEN [sched EXCEPT !.runs[r] =
                             Returned(run, t, FailureResult(task, "No breakpoints found"))]
                    ELSE [sched EXCEPT !.runs[r].ts[t].phase = "env",
                                       !.runs[r].ts[t].calls = {"computeWeather", "computeAQI"}]
    /\ UNCHANGED <<bp, aqiCalc, fx, api, calc>>

\* if (!weatherData || !aqiData): both are results[0] of a fetcher that
\* resolved, an object whatever its points hold
EnvDataMissing(readings) == FALSE

\* processRoute: await Promise.all([computeWeather, computeAQI]) settles; it
\* rejects when a provider key is not configured; when it resolves, every
\* point of the route may have come back null; then sendToPathway is called
SchedEnvFetched ==
    /\ \E r \in 1..Len(sched.runs) :
         \E t \in 1..Len(sched.runs[r].tasks), readings \in {"some", "allNull"} :
            LET run == sched.runs[r]
                task == run.tasks[t]
            IN /\ run.ts[t].phase = "env"
               /\ readings = "allNull" => (sched.apiKeys /\ sched.faults < MaxTaskFaults)
               /\ sched' =
                    IF ~sched.apiKeys
                    THEN [sched EXCEPT !.runs[r] =
                             Returned(run, t, CaughtResult(task, "WEATHER_API_KEY not configured"))]
                    ELSE IF EnvDataMissing(readings)
                    THEN [sched EXCEPT !.runs[r] =
                             Returned(run, t, FailureResult(task, "Failed to fetch environmental data"))]
                    ELSE [sched EXCEPT
                             !.faults = IF readings = "allNull" THEN @ + 1 ELSE @,
                             !.runs[r].ts[t].phase = "pathway",
                             !.runs[r].ts[t].readings = readings,
                             !.runs[r].ts[t].calls = @ \cup {"sendToPathway"}]
    /\ UNCHANGED <<bp, aqiCalc, fx, api, calc>>

\* processRoute: await sendToPathway(...) settles (it never rejects)
SchedPathwayReplied ==
    /\ \E r \in 1..Len(sched.runs) :
         \E t \in 1..Len(sched.runs[r].tasks), score \in PathwayScores \cup {NoScore} :
            LET run == sched.runs[r]
                task == run.tasks[t]
            IN /\ run.ts[t].phase = "pathway"
               /\ score = NoScore => sched.faults < MaxTaskFaults
               /\ sched' =
                    IF score = NoScore
                    THEN [sched EXCEPT !.faults = @ + 1,
                             !.runs[r] = Returned(run, t,
                                            FailureResult(task, "Pathway computation failed"))]
                    ELSE [sched EXCEPT !.runs[r].ts[t].phase = "update",
                                       !.runs[r].ts[t].score = score]
    /\ UNCHANGED <<bp, aqiCalc, fx, api, calc>>

\* processRoute: await Route.updateOne(...) settles
SchedRouteUpdated ==
    /\ \E r \in 1..Len(sched.runs) :
         \E t \in 1..Len(sched.runs[r].tasks), ok \in BOOLEAN :
            LET run == sched.runs[r]
                task == run.tasks[t]
            IN /\ run.ts[t].phase = "update"
               /\ ~ok => sched.faults < MaxTaskFaults
               /\ sched' =
                    IF ~ok
                    THEN [sched EXCEPT !.faults = @ + 1,
                             !.runs[r] = Returned(run, t, CaughtResult(task, "db error"))]
                    ELSE [sched EXCEPT
                             !.db = UpdateOne(@, task, run.ts[t].score, r),
                             !.runs[r] = Returned(run, t, SuccessResult(task, run.ts[t].score))]
    /\ UNCHANGED <<bp, aqiCalc, fx, api, calc>>

\* await Promise.all(batch...) resolves: results.push(...batchResults), then
\* the pause before the next batch or the end of the run
SchedBatchResolved ==
    /\ \E r \in 1..Len(sched.runs) :
         LET run == sched.runs[r]
             batch == SchedBatch(run)
             pushed == [run EXCEPT !.results =
                           @ \o [k \in 1..Cardinality(batch) |-> run.ts[run.i + k].result]]
         IN /\ run.status = "batch"
            /\ \A t \in batch : run.ts[t].phase = "returned"
            /\ sched' =
                 IF run.i + BATCH_SIZE < Len(run.tasks)
                 THEN [sched EXCEPT !.runs[r] =
                          [pushed EXCEPT !.status = "pause", !.timer = BatchPauseMs]]
                 ELSE FinishRun([sched EXCEPT !.runs[r] = pushed], r)
    /\ UNCHANGED <<bp, aqiCalc, fx, api, calc>>

\* the 500ms setTimeout fires: i += BATCH_SIZE and the next batch starts
SchedPauseElapsed ==
    /\ \E r \in 1..Len(sched.runs) :
         /\ sched.runs[r].status = "pause"
         /\ sched' = [sched EXCEPT !.runs[r] =
                         StartRunBatch([@ EXCEPT !.i = @ + BATCH_SIZE, !.timer = 0])]
    /\ UNCHANGED <<bp, aqiCalc, fx, api, calc>>

\* the steps of a run up to the end of a batch
BatchNext ==
    \/ SchedRoutesLoaded
    \/ SchedBreakpointsFound
    \/ SchedEnvFetched
    \/ SchedPathwayReplied
    \/ SchedRouteUpdated
    \/ SchedBatchResolved

\* over SchedDBs a run has a single batch, so no pause is ever pending
SchedNext == SchedTick \/ SchedStartup \/ BatchNext

BatchRunNext == SchedTick \/ BatchNext \/ SchedPauseElapsed

\* ticks and the startup run over a small database
SpecScheduler == SchedInit /\ [][SchedNext]_vars

\* tick-started runs over databases of up to 6 tasks
SpecBatchRun == BatchRunInit /\ [][BatchRunNext]_vars

-----------------------------------------------------------------------------
(* Claims on the scheduler                                                  *)

TickRunsInProgress(s) ==
    {r \in 1..Len(s.runs) : s.runs[r].origin = "tick" /\ s.runs[r].status # "done"}

\* C9: a tick that fires while the run started by a previous tick has not
\* finished does nothing: it starts no run and leaves the flag and every run
\* as they were; a tick-initiated run starts only in the step of a tick that
\* finds no tick-initiated run in progress (so a skipped tick is not queued);
\* hence at most one tick-initiated run is in progress at any time.
C9_OverlappingTickSkipped ==
    /\ [](Cardinality(TickRunsInProgress(sched)) <= 1)
    /\ [][(sched'.ticks = sched.ticks + 1 /\ TickRunsInProgress(sched) # {})
             => sched' = [sched EXCEPT !.ticks = @ + 1, !.skipped = @ + 1]]_vars
    /\ [][Cardinality(TickRunsInProgress(sched')) > Cardinality(TickRunsInProgress(sched))
             => /\ sched'.ticks = sched.ticks + 1
                /\ TickRunsInProgress(sched) = {}]_vars

\* a tick was skipped while a tick-initiated run is in the middle of a batch
C9_Witness ==
    /\ sched.skipped >= 1
    /\ \E r \in TickRunsInProgress(sched) : sched.runs[r].status = "batch"

\* identifiers of the route options of the saved routes, in task order
OptionIds(routes) ==
    LET tasks == BuildTasks(routes)
    IN [k \in 1..Len(tasks) |-> <<tasks[k].routeId, tasks[k].routeOptionIndex>>]

\* C10: in a run that loaded the saved routes, the tasks are the route options
\* of the saved routes, no task is started more than once, and when the run
\* has ended every task was started exactly once and has exactly one result,
\* a success or a failure carrying the task's identifiers, whatever failed in
\* other tasks; a run in a batch whose tasks have all returned can always go
\* on, and a run only ever loads, runs a batch, pauses or ends (it never
\* rejects).
C10_EveryTaskOneResult ==
    \A r \in 1..Len(sched.runs) :
        LET run == sched.runs[r]
            n == Len(run.tasks)
        IN /\ run.status \in {"loading", "batch", "pause", "done"}
           /\ run.loaded =>
                [k \in 1..n |-> <<run.tasks[k].routeId, run.tasks[k].routeOptionIndex>>]
                    = OptionIds(sched.db.routes)
           /\ \A t \in 1..n : run.ts[t].started <= 1
           /\ Len(run.results) <= n
           /\ \A k \in 1..Len(run.results) :
                /\ run.results[k].routeId = run.tasks[k].routeId
                /\ run.results[k].routeOptionIndex = run.tasks[k].routeOptionIndex
                /\ run.results[k].success <=> run.results[k].newScore # NoScore
                /\ run.results[k].success <=> run.results[k].error = "none"
           /\ (run.status = "done" /\ run.loaded) =>
                /\ Len(run.results) = n
                /\ \A t \in 1..n : run.ts[t].started = 1 /\ run.ts[t].phase = "returned"
           /\ (run.status = "batch" /\ \A t \in SchedBatch(run) : run.ts[t].phase = "returned")
                => ENABLED SchedBatchResolved

\* a finished run of 6 tasks in which a task threw, a task had no
\* breakpoints, and a task of the first batch and the task of the second
\* batch succeeded
C10_Witness ==
    \E r \in 1..Len(sched.runs) :
        LET run == sched.runs[r]
        IN /\ run.status = "done"
           /\ Len(run.results) = 6
           /\ \E k \in 1..5 : run.results[k].error = "db error"
           /\ \E k \in 1..5 : run.results[k].error = "No breakpoints found"
           /\ \E k \in 1..5 : run.results[k].success
           /\ run.results[6].success

-----------------------------------------------------------------------------
(* The controllers: score-compute and save-route requests over the cache    *)

ApiInit ==
    /\ \E providers \in Providers : api = [ApiIdle EXCEPT !.providers = providers]
    /\ bp = BPStart
    /\ aqiCalc = AQICalcIdle
    /\ fx = FxIdle
    /\ sched = SchedIdle /\ calc = CalcIdle

\* getScoreController up to its first await: validation, then redis.get;
\* the body is one of bodies, and at most budget requests arrive
ScoreArrivesFrom(bodies, budget) ==
    /\ Len(api.reqs) + Len(api.saves) < budget
    /\ \E body \in bodies :
         api' = [api EXCEPT !.reqs = Append(@,
                    IF ValidationError(body) # "none"
                    THEN [NewScoreRequest(body) EXCEPT
                             !.pc = "done",
                             !.owed = Owed(api, Len(api.reqs) + 1, body),
                             !.resp = [NoResponse EXCEPT !.status = 400,
                                          !.message = ValidationError(body)]]
                    ELSE [NewScoreRequest(body) EXCEPT !.cacheOps = 1])]
    /\ UNCHANGED <<bp, aqiCalc, fx, sched, calc>>

ScoreArrives == ScoreArrivesFrom(ScoreBodies, MaxRequests)

\* the only request of a behaviour, on an empty cache
ScoreArrivesOnce == ScoreArrivesFrom(ValidationBodies, 1)

\* await redis.get(cacheKey) settles
ScoreCacheRead ==
    /\ \E q \in 1..Len(api.reqs), ok \in BOOLEAN :
         LET a == [api EXCEPT !.reqs[q].owed = Owed(api, q, api.reqs[q].body),
                              !.faults = IF ok THEN @ ELSE @ + 1]
             found == Lookup(api.scoreCache, api.reqs[q].cacheKey)
         IN /\ api.reqs[q].pc = "get"
            /\ ~ok => api.faults < MaxStoreEvents
            /\ api' = IF ~ok THEN ScoreReadThrows(a, q)
                      ELSE IF found # {}
                      THEN ScoreHit(a, q, (CHOOSE e \in found : TRUE).value)
                      ELSE FreshStart(a, q)
    /\ UNCHANGED <<bp, aqiCalc, fx, sched, calc>>

\* cache hit: await redis.set(route_search:<searchId>) settles, then the
\* cached response is sent
ScoreHitStored ==
    /\ \E q \in 1..Len(api.reqs), ok \in BOOLEAN :
         LET req == api.reqs[q]
             a == [api EXCEPT
                      !.faults = IF ok THEN @ ELSE @ + 1,
                      !.bpCache = IF ok THEN Stored(@, req.searchId, req.breakpoints) ELSE @,
                      !.reqs[q].sets.bps = IF ok THEN "ok" ELSE "failed"]
         IN /\ req.pc = "hitSet"
            /\ ~ok => api.faults < MaxStoreEvents
            /\ api' = Respond(a, q, [NoResponse EXCEPT !.status = 200,
                                        !.message = "Route scores computed successfully",
                                        !.data = req.data, !.searchId = req.searchId,
                                        !.cached = TRUE])
    /\ UNCHANGED <<bp, aqiCalc, fx, sched, calc>>

\* lines 280-477 up to the await of the two cache writes: both fetchers have
\* resolved, the routes are scored from their readings, a searchId is minted
\* and the two redis.set calls are issued
Scored(a, q, weather, aqi) ==
    LET req == a.reqs[q]
    IN [a EXCEPT
          !.nextUuid = @ + 1,
          !.reqs[q].pc = "sets",
          !.reqs[q].cacheOps = @ + 2,
          !.reqs[q].weather = weather,
          !.reqs[q].aqi = aqi,
          !.reqs[q].fetches = @ + 2 * PointCount(req.breakpoints),
          !.reqs[q].data = ScoreData(req.body, req.breakpoints, weather, aqi),
          !.reqs[q].searchId = uuidv4(a),
          !.reqs[q].sets = [score |-> "pending", bps |-> "pending"]]

\* await computeWeather(breakpoints), then await computeAQI(breakpoints)
\* settle (nothing shared is read or written between the two): either call
\* rejects when its key is not configured, else it resolves with readings or
\* nulls; the routes are scored, a searchId is minted and the two cache writes
\* are issued
ScoreProvidersSettle ==
    /\ \E q \in 1..Len(api.reqs) :
         LET req == api.reqs[q]
             points == PointCount(req.breakpoints)
         IN /\ req.pc = "weather"
            /\ api' = IF api.providers.weather = "nokey"
                      THEN Respond(api, q, Caught("WEATHER_API_KEY not configured"))
                      ELSE IF api.providers.aqi = "nokey"
                      THEN Respond([api EXCEPT !.reqs[q].fetches = @ + points], q,
                                   Caught("AQI_API_KEY not configured"))
                      ELSE Scored(api, q, api.providers.weather, api.providers.aqi)
    /\ UNCHANGED <<bp, aqiCalc, fx, sched, calc>>

\* one of the two redis.set calls of Promise.all settles; the response is
\* sent when both have succeeded or at the first failure, and a write still
\* pending then settles after the response
ScoreStoreSettles ==
    /\ \E q \in 1..Len(api.reqs), which \in {"score", "bps"}, ok \in BOOLEAN :
         LET req == api.reqs[q]
             sets == [req.sets EXCEPT ![which] = IF ok THEN "ok" ELSE "failed"]
             a == [api EXCEPT
                      !.faults = IF ok THEN @ ELSE @ + 1,
                      !.scoreCache = IF ok /\ which = "score"
                                     THEN Stored(@, req.cacheKey, req.data) ELSE @,
                      !.bpCache = IF ok /\ which = "bps"
                                  THEN Stored(@, req.searchId, req.breakpoints) ELSE @,
                      !.reqs[q].sets = sets,
                      !.reqs[q].expired = IF ok /\ which = "score" THEN FALSE ELSE @]
         IN /\ req.pc \in {"sets", "done"}
            /\ req.sets[which] = "pending"
            /\ ~ok => api.faults < MaxStoreEvents
            /\ api' = IF req.pc = "sets"
                         /\ (~ok \/ (sets.score = "ok" /\ sets.bps = "ok"))
                      THEN Respond(a, q, [NoResponse EXCEPT !.status = 200,
                                             !.message = "Route scores computed successfully",
                                             !.data = req.data, !.searchId = req.searchId])
                      ELSE a
    /\ UNCHANGED <<bp, aqiCalc, fx, sched, calc>>

\* the TTL of a score-cache entry (30 min) or of a breakpoint-cache entry
\* (1 h) runs out
CacheExpires ==
    /\ api.faults < MaxStoreEvents
    /\ \/ \E e \in api.scoreCache :
            api' = [api EXCEPT
                       !.faults = @ + 1,
                       !.scoreCache = @ \ {e},
                       !.reqs = [q \in 1..Len(@) |->
                                    IF @[q].cacheKey = e.key /\ @[q].sets.score = "ok"
                                    THEN [@[q] EXCEPT !.expired = TRUE] ELSE @[q]]]
       \/ \E e \in api.bpCache :
            api' = [api EXCEPT !.faults = @ + 1, !.bpCache = @ \ {e}]
    /\ UNCHANGED <<bp, aqiCalc, fx, sched, calc>>

\* saveRoute up to its first await: Route.create is issued
SaveArrives ==
    /\ Len(api.reqs) + Len(api.saves) < MaxRequests
    /\ \E body \in SaveBodies :
         api' = [api EXCEPT !.saves = Append(@, NewSaveRequest(body))]
    /\ UNCHANGED <<bp, aqiCalc, fx, sched, calc>>

\* await Route.create(...) settles; with a well-formed searchId the
\* breakpoint cache is read, else the breakpoints are recomputed
SaveRouteCreated ==
    /\ \E s \in 1..Len(api.saves), ok \in BOOLEAN :
         LET id == api.nextRouteId
             a == [api EXCEPT !.db.routes = Append(@, [id |-> id,
                                                      routes |-> api.saves[s].body.routes]),
                              !.nextRouteId = @ + 1,
                              !.saves[s].routeId = id]
         IN /\ api.saves[s].pc = "create"
            /\ ~ok => api.faults < MaxStoreEvents
            /\ api' = IF ~ok
                      THEN [api EXCEPT !.faults = @ + 1, !.saves[s].pc = "done",
                                       !.saves[s].dbFailed = TRUE, !.saves[s].status = 500]
                      ELSE IF api.saves[s].body.searchId.kind = "uuid"
                      THEN [a EXCEPT !.saves[s].pc = "get"]
                      ELSE SaveAfterLookup(a, s, <<>>)
    /\ UNCHANGED <<bp, aqiCalc, fx, sched, calc>>

\* await redis.get(route_search:<searchId>) settles
SaveCacheRead ==
    /\ \E s \in 1..Len(api.saves), ok \in BOOLEAN :
         LET found == Lookup(api.bpCache, api.saves[s].body.searchId.id)
         IN /\ api.saves[s].pc = "get"
            /\ ~ok => api.faults < MaxStoreEvents
            /\ api' = IF ~ok THEN SaveReadThrows([api EXCEPT !.faults = @ + 1], s)
                      ELSE IF found # {}
                      THEN SaveAfterLookup(api, s, (CHOOSE e \in found : TRUE).value)
                      ELSE SaveAfterLookup(api, s, <<>>)
    /\ UNCHANGED <<bp, aqiCalc, fx, sched, calc>>

\* await BreakPoint.insertMany(docs) settles
SaveInserted ==
    /\ \E s \in 1..Len(api.saves), ok \in BOOLEAN :
         /\ api.saves[s].pc = "insert"
         /\ ~ok => api.faults < MaxStoreEvents
         /\ api' = IF ~ok
                   THEN [api EXCEPT !.faults = @ + 1, !.saves[s].pc = "done",
                                    !.saves[s].dbFailed = TRUE, !.saves[s].status = 500]
                   ELSE [api EXCEPT !.db.breakpoints = @ \cup api.saves[s].docs,
                                    !.saves[s].pc = "done", !.saves[s].status = 201]
    /\ UNCHANGED <<bp, aqiCalc, fx, sched, calc>>

\* saveRoute arrives, in the runs of save-route against delete-route
SaveArrivesAny ==
    /\ Len(api.saves) < MaxSaves
    /\ \E body \in SaveBodies :
         api' = [api EXCEPT !.saves = Append(@, NewSaveRequest(body))]
    /\ UNCHANGED <<bp, aqiCalc, fx, sched, calc>>

\* deleteRoute up to its first await: Route.findOneAndDelete({_id: id}) is
\* issued; the id is one a listing of the saved routes has shown, or unknown
DeleteArrives ==
    /\ Len(api.deletes) < MaxDeletes
    /\ \E id \in 1..(MaxSaves + 1) :
         api' = [api EXCEPT !.deletes = Append(@,
                    [id |-> id, pc |-> "find", dbFailed |-> FALSE, raced |-> FALSE,
                     status |-> 0])]
    /\ UNCHANGED <<bp, aqiCalc, fx, sched, calc>>

\* the saveRoute that created route id has not answered yet
SaveUnderWay(a, id) ==
    \E s \in 1..Len(a.saves) : a.saves[s].routeId = id /\ a.saves[s].pc # "done"

\* await Route.findOneAndDelete(...) settles: 404 when no such route, else
\* the route is gone and BreakPoint.deleteMany({routeId}) is issued
DeleteRouteRemoved ==
    /\ \E d \in 1..Len(api.deletes), ok \in BOOLEAN :
         LET id == api.deletes[d].id
             found == \E k \in 1..Len(api.db.routes) : api.db.routes[k].id = id
         IN /\ api.deletes[d].pc = "find"
            /\ ~ok => api.faults < MaxStoreEvents
            /\ api' = IF ~ok
                      THEN [api EXCEPT !.faults = @ + 1, !.deletes[d].pc = "done",
                                       !.deletes[d].dbFailed = TRUE,
                                       !.deletes[d].status = 500]
                      ELSE IF ~found
                      THEN [api EXCEPT !.deletes[d].pc = "done", !.deletes[d].status = 404]
                      ELSE [api EXCEPT !.db.routes = SelectSeq(@, LAMBDA r : r.id # id),
                                       !.deletes[d].raced = SaveUnderWay(api, id),
                                       !.deletes[d].pc = "deleteMany"]
    /\ UNCHANGED <<bp, aqiCalc, fx, sched, calc>>

\* await BreakPoint.deleteMany({routeId: route._id}) settles
DeleteBreakpointsRemoved ==
    /\ \E d \in 1..Len(api.deletes), ok \in BOOLEAN :
         /\ api.deletes[d].pc = "deleteMany"
         /\ ~ok => api.faults < MaxStoreEvents
         /\ api' = IF ~ok
                   THEN [api EXCEPT !.faults = @ + 1, !.deletes[d].pc = "done",
                                    !.deletes[d].dbFailed = TRUE,
                                    !.deletes[d].status = 500]
                   ELSE [api EXCEPT
                           !.db.breakpoints = {b \in @ : b.routeId # api.deletes[d].id},
                           !.deletes[d].pc = "done", !.deletes[d].status = 200]
    /\ UNCHANGED <<bp, aqiCalc, fx, sched, calc>>

\* save-route and delete-route requests against each other
SaveDeleteNext ==
    \/ SaveArrivesAny
    \/ SaveRouteCreated
    \/ SaveCacheRead
    \/ SaveInserted
    \/ DeleteArrives
    \/ DeleteRouteRemoved
    \/ DeleteBreakpointsRemoved

SaveDeleteInit ==
    /\ api = ApiIdle
    /\ bp = BPStart /\ aqiCalc = AQICalcIdle /\ fx = FxIdle
    /\ sched = SchedIdle /\ calc = CalcIdle

SpecSaveDelete == SaveDeleteInit /\ [][SaveDeleteNext]_vars

ApiNext ==
    \/ ScoreArrives
    \/ ScoreCacheRead
    \/ ScoreHitStored
    \/ ScoreProvidersSettle
    \/ ScoreStoreSettles
    \/ CacheExpires
    \/ SaveArrives
    \/ SaveRouteCreated
    \/ SaveCacheRead
    \/ SaveInserted

SpecApi == ApiInit /\ [][ApiNext]_vars

\* a single score-compute request on an empty cache
ValidationNext ==
    \/ ScoreArrivesOnce
    \/ ScoreCacheRead
    \/ ScoreProvidersSettle
    \/ ScoreStoreSettles
    \/ CacheExpires

SpecValidation == ApiInit /\ [][ValidationNext]_vars

-----------------------------------------------------------------------------
(* Claims on the result cache                                               *)

\* computeBreakpoints of each request body
BodyBreakpoints == [body \in ScoreBodies |-> computeBreakpoints(body.routes)]

\* what the request would be answered with no cache at all
FreshPossible(q) ==
    /\ BodyBreakpoints[api.reqs[q].body].status # "threw"
    /\ api.providers.weather # "nokey"
    /\ api.providers.aqi # "nokey"

FreshData(q) ==
    ScoreData(api.reqs[q].body, BodyBreakpoints[api.reqs[q].body].result,
              api.providers.weather, api.providers.aqi)

Answered == {q \in 1..Len(api.reqs) : api.reqs[q].pc = "done"}

\* C7 as stated, for second requests that pass validation: a request decided
\* while an earlier request with the same geometries, travel modes and traffic
\* values had been answered 200, had its score-cache write succeed and its TTL
\* not yet run out, is answered 200 with cached:true and issues no provider
\* request.
C7_SecondRequestCached ==
    \A q \in Answered :
        (api.reqs[q].owed /\ api.reqs[q].resp.status # 400) =>
            /\ api.reqs[q].resp.status = 200
            /\ api.reqs[q].resp.cached
            /\ api.reqs[q].fetches = 0

\* C7, amended: the same, for a second request whose score-cache read does
\* not fail.
C7_SecondRequestCachedWhenReadSucceeds ==
    \A q \in Answered :
        (/\ api.reqs[q].owed
         /\ api.reqs[q].resp.status # 400
         /\ ~api.reqs[q].readFailed) =>
            /\ api.reqs[q].resp.status = 200
            /\ api.reqs[q].resp.cached
            /\ api.reqs[q].fetches = 0

\* the second request asks for the same route with another distance, its read
\* succeeds and it is served the first request's cached answer
C7_Witness ==
    /\ Len(api.reqs) = 2
    /\ api.reqs[1].body.routes[1].distance # api.reqs[2].body.routes[1].distance
    /\ api.reqs[2].pc = "done"
    /\ api.reqs[2].owed
    /\ ~api.reqs[2].readFailed
    /\ api.reqs[2].resp.cached
    /\ api.reqs[2].resp.data = api.reqs[1].resp.data
    /\ api.reqs[2].fetches = 0

\* C8: a score-compute request whose cache read threw is answered exactly as
\* with no cache: 200 with the freshly computed data and no cached flag when
\* the computation is possible, 500 otherwise; a request one of whose cache
\* writes failed is still answered 200, with the data it computed or read;
\* no request is answered 500 when the fresh computation is possible.  A
\* save-route whose breakpoint-cache read threw persists the breakpoints
\* recomputed from the submitted routes and answers 201 unless a database
\* call failed.
C8_CacheFailureContained ==
    /\ \A q \in Answered :
         LET req == api.reqs[q]
         IN req.resp.status # 400 =>
              /\ req.readFailed =>
                   IF FreshPossible(q)
                   THEN /\ req.resp.status = 200
                        /\ ~req.resp.cached
                        /\ req.resp.data = FreshData(q)
                   ELSE req.resp.status = 500
              /\ (req.sets.score = "failed" \/ req.sets.bps = "failed") =>
                   /\ req.resp.status = 200
                   /\ req.resp.data = req.data
                   /\ ~req.resp.cached => req.resp.data = FreshData(q)
              /\ req.resp.status = 500 => ~FreshPossible(q)
              /\ req.resp.status \in {200, 500}
    /\ \A s \in 1..Len(api.saves) :
         LET save == api.saves[s]
             recomputed == BreakpointsToSave(save.body.routes, <<>>)
         IN (save.readFailed /\ save.pc \in {"insert", "done"}) =>
              /\ save.bps = recomputed
              /\ save.pc = "done" => (save.status = 201 \/ save.dbFailed)
              /\ save.status = 201 =>
                   {d \in api.db.breakpoints : d.routeId = save.routeId}
                       = DocsOf(save.routeId, recomputed)

\* the cache held an answer for the request, its read threw, and the request
\* was answered 200 from a fresh computation
C8_Witness ==
    \E q \in Answered :
        /\ api.reqs[q].readFailed
        /\ api.reqs[q].owed
        /\ api.reqs[q].resp.status = 200
        /\ ~api.reqs[q].resp.cached
        /\ api.reqs[q].fetches > 0

\* a save-route whose breakpoint-cache read threw answered 201 with
\* breakpoints persisted
C8_SaveReadFailureReached ==
    \E s \in 1..Len(api.saves) :
        /\ api.saves[s].readFailed
        /\ api.saves[s].status = 201
        /\ api.saves[s].docs # {}

-----------------------------------------------------------------------------
(* Claims on the score-compute controller                                   *)

\* the requests C11 speaks of
RejectedByContract(body) ==
    \/ body.routesIs # "array"
    \/ Len(body.routes) = 0
    \/ Len(body.routes) > 3
    \/ \E i \in 1..Len(body.routes) :
          \/ ~body.routes[i].hasDistance
          \/ ~body.routes[i].hasDuration
          \/ ~body.routes[i].hasGeometry

ValidationMessages ==
    {"Invalid request. 'routes' array is required and cannot be empty.",
     "Maximum 3 routes allowed.",
     "Invalid route data at index i. Missing required fields."}

ErrorTexts ==
    {"WEATHER_API_KEY not configured", "AQI_API_KEY not configured",
     "No routes provided", "Maximum 3 routes allowed", "Invalid route geometry",
     "Insufficient coordinates in route geometry (minimum 2 required)",
     "redis get failed", "redis set failed"}

WellFormedResponse(resp) ==
    \/ /\ resp.status = 200
       /\ resp.message = "Route scores computed successfully"
       /\ resp.searchId # 0
    \/ /\ resp.status = 400
       /\ resp.message \in ValidationMessages
       /\ resp.data = NoData
    \/ /\ resp.status = 500
       /\ resp.message = "Failed to compute route scores"
       /\ resp.data = NoData

\* how far a request has come: its position, then its settled cache writes
Progress(req) ==
    4 * (CASE req.pc = "get" -> 0 [] req.pc = "hitSet" -> 1 [] req.pc = "weather" -> 2
           [] req.pc = "sets" -> 3 [] OTHER -> 4)
    + Cardinality({w \in {"score", "bps"} : req.sets[w] \in {"ok", "failed"}})

-----------------------------------------------------------------------------
(* Claims on save-route                                                     *)

\* the documents computeBreakpoints of the submitted routes gives rise to
\* (none when it throws)
DerivedDocs ==
    [body \in SaveBodies |->
        LET derived == computeBreakpoints(body.routes)
        IN IF derived.status = "threw" THEN <<>> ELSE derived.result]

PersistedFor(routeId) == {d \in api.db.breakpoints : d.routeId = routeId}

\* C13: a save-route with no searchId, with a searchId that is not a UUID,
\* with a UUID for which the breakpoint cache holds no entry when it is read
\* (unknown or expired), or whose cache read fails, takes nothing from the
\* cache: the BreakPoint documents it hands to insertMany, and those persisted
\* for its route once it has answered 201, are exactly the documents of
\* computeBreakpoints applied to the submitted routes (none when that throws),
\* and nothing else is ever persisted for its route.
C13_SaveRecomputesOnMiss ==
    /\ [](\A s \in 1..Len(api.saves) :
            LET save == api.saves[s]
                derived == DocsOf(save.routeId, DerivedDocs[save.body])
            IN /\ save.body.searchId.kind # "uuid" => ~save.hit
               /\ save.readFailed => ~save.hit
               /\ (~save.hit /\ save.pc \in {"insert", "done"} /\ save.routeId # 0) =>
                    /\ save.docs = derived
                    /\ save.status = 201 => PersistedFor(save.routeId) = derived
               /\ (~save.hit /\ save.routeId # 0) => PersistedFor(save.routeId) \subseteq derived)
    /\ [][\A s \in 1..Len(api.saves) :
            (/\ api.saves[s].pc = "get"
             /\ api'.saves[s].pc # "get"
             /\ Lookup(api.bpCache, api.saves[s].body.searchId.id) = {})
                => ~api'.saves[s].hit]_vars

\* a score-compute answer cached its breakpoints under searchId 1, the entry
\* is gone from the cache, and a save-route naming searchId 1 answered 201
\* with the documents recomputed from its own routes
C13_Witness ==
    \E s \in 1..Len(api.saves), q \in 1..Len(api.reqs) :
        /\ api.saves[s].body.searchId.kind = "uuid"
        /\ api.reqs[q].searchId = api.saves[s].body.searchId.id
        /\ api.reqs[q].sets.bps = "ok"
        /\ Lookup(api.bpCache, api.reqs[q].searchId) = {}
        /\ ~api.saves[s].hit
        /\ ~api.saves[s].readFailed
        /\ api.saves[s].status = 201
        /\ PersistedFor(api.saves[s].routeId) # {}

-----------------------------------------------------------------------------
(* Claims on the breakpoint cache                                           *)

OwnBreakpoints(q) == BodyBreakpoints[api.reqs[q].body].result

\* C14: every 200 answer of score-compute, cached or fresh, carries a
\* searchId that no other answer carries; an entry of the breakpoint cache
\* belongs to exactly one request, whose write succeeded, and holds
\* computeBreakpoints of that request's own routes; and at the moment the
\* write of a request succeeds the cache maps its searchId to exactly that.
C14_FreshSearchId ==
    /\ [](/\ \A q \in Answered :
               api.reqs[q].resp.status = 200 =>
                  /\ api.reqs[q].resp.searchId = api.reqs[q].searchId
                  /\ api.reqs[q].resp.searchId # 0
                  /\ \A p \in Answered \ {q} :
                        api.reqs[p].resp.status = 200 =>
                            api.reqs[p].resp.searchId # api.reqs[q].resp.searchId
          /\ \A e \in api.bpCache :
               /\ Cardinality(Lookup(api.bpCache, e.key)) = 1
               /\ \E q \in 1..Len(api.reqs) :
                     /\ api.reqs[q].searchId = e.key
                     /\ api.reqs[q].sets.bps = "ok"
                     /\ e.value = OwnBreakpoints(q))
    /\ [][\A q \in 1..Len(api.reqs) :
            (api.reqs[q].sets.bps # "ok" /\ api'.reqs[q].sets.bps = "ok") =>
                Lookup(api'.bpCache, api'.reqs[q].searchId)
                    = {[key |-> api'.reqs[q].searchId,
                        value |-> BodyBreakpoints[api'.reqs[q].body].result]}]_vars

\* two answers, the second served from the score cache of the first, carry
\* different searchIds, and the breakpoint cache holds for each the
\* breakpoints of its own routes: 3 for the route of 50 km, 4 for 300 km
C14_Witness ==
    /\ Len(api.reqs) = 2
    /\ api.reqs[1].resp.status = 200 /\ api.reqs[2].resp.status = 200
    /\ api.reqs[2].resp.cached
    /\ api.reqs[1].resp.searchId # api.reqs[2].resp.searchId
    /\ Cardinality(api.bpCache) = 2
    /\ \E e, f \in api.bpCache : Len(e.value[1]) = 3 /\ Len(f.value[1]) = 4

-----------------------------------------------------------------------------
(* One computeBreakpoints call on a given route list                        *)

\* most routes of a list handed to computeBreakpoints
MaxRoutes == 4

\* distances (km) at and around the limits of calculateBreakpointCount
StepDistances == {0, 50, 99, 100, 200, 299, 300, 400, 499, 500, 501, 600, 749, 750, 1000}

RouteInput(distance, coordinates) ==
    [distance |-> distance, hasGeometry |-> TRUE, coordinates |-> coordinates]

\* the coordinate an earlier route has already taken
TakenPair == <<0, 0>>

\* a geometry of len pairs all equal to the taken coordinate, except at the
\* 0-based indices in free, which are pairwise apart
CrowdedGeometry(len, free) ==
    [k \in 1..len |-> IF (k - 1) \in free THEN <<TOL * k, 0>> ELSE TakenPair]

\* routes of the lists: two long lines, a 2-pair and a 1-pair geometry, a
\* route without routeGeometry, and a line of 24 pairs that repeats one
\* coordinate everywhere but at index 22
ExtractRoutes ==
    {RouteInput(50, LineGeometry), RouteInput(300, SecondLine),
     RouteInput(50, << <<0, 0>>, <<0, TOL>> >>), RouteInput(50, << <<0, 0>> >>),
     [RouteInput(50, <<>>) EXCEPT !.hasGeometry = FALSE],
     RouteInput(50, CrowdedGeometry(24, {22}))}

\* the lists: every list of up to MaxRoutes routes, and a single long line
\* with each of the distances
ExtractInputs ==
    UNION {[1..n -> ExtractRoutes] : n \in 0..MaxRoutes}
    \cup {<<RouteInput(d, LineGeometry)>> : d \in StepDistances}

\* what the caller of computeBreakpoints(routes) gets: the returned list, or
\* an exception and no value
Outcome(routes) ==
    LET end == computeBreakpoints(routes)
    IN IF end.status = "threw" THEN [threw |-> TRUE, value |-> <<>>]
       ELSE [threw |-> FALSE, value |-> end.result]

ExtractInit ==
    /\ \E routes \in ExtractInputs :
         calc = [fn |-> "computeBreakpoints", done |-> FALSE, routes |-> routes,
                 out |-> [threw |-> FALSE, value |-> <<>>]]
    /\ bp = BPStart /\ aqiCalc = AQICalcIdle /\ fx = FxIdle
    /\ sched = SchedIdle /\ api = ApiIdle

ExtractCall ==
    /\ calc.fn = "computeBreakpoints"
    /\ ~calc.done
    /\ calc' = [calc EXCEPT !.done = TRUE, !.out = Outcome(calc.routes)]
    /\ UNCHANGED <<bp, aqiCalc, fx, sched, api>>

ExtractNext == ExtractCall

SpecExtract == ExtractInit /\ [][ExtractNext]_vars

Extracted == calc.fn = "computeBreakpoints" /\ calc.done

\* a geometry long enough for 4 breakpoints at separate indices, whose
\* vertices are pairwise apart by the tolerance or more
EnoughDistinctPoints(coordinates) ==
    /\ Len(coordinates) >= 7
    /\ \A i, j \in 1..Len(coordinates) :
         i # j => \/ Abs(coordinates[i][1] - coordinates[j][1]) >= TOL
                  \/ Abs(coordinates[i][2] - coordinates[j][2]) >= TOL

SingleClearRoute ==
    /\ Extracted
    /\ Len(calc.routes) = 1
    /\ calc.routes[1].hasGeometry
    /\ EnoughDistinctPoints(calc.routes[1].coordinates)

\* the step function as C15 states it: every range closed below, open above
CountAsStated(d) ==
    IF d < 100 THEN 3 ELSE IF d < 300 THEN 3 ELSE IF d < 500 THEN 4
    ELSE IF d < 750 THEN 3 ELSE 4

\* the step function with 500 km in the range of 4
CountAmended(d) ==
    IF d < 100 THEN 3 ELSE IF d < 300 THEN 3 ELSE IF d <= 500 THEN 4
    ELSE IF d < 750 THEN 3 ELSE 4

\* C15 as stated: for a single route with enough distinct interior points
\* computeBreakpoints returns count(d) breakpoints, count being 3 on [0,100),
\* 3 on [100,300), 4 on [300,500), 3 on [500,750) and 4 from 750 on.
C15_CountAsStated ==
    SingleClearRoute =>
        /\ ~calc.out.threw
        /\ Len(calc.out.value[1]) = CountAsStated(calc.routes[1].distance)

\* C15, amended: the same with count 4 on [300,500] and 3 on (500,750).
C15_CountWith500InFour ==
    SingleClearRoute =>
        /\ ~calc.out.threw
        /\ Len(calc.out.value[1]) = CountAmended(calc.routes[1].distance)

\* a single long route of exactly 500 km got 4 breakpoints
C15_Witness ==
    /\ SingleClearRoute
    /\ calc.routes[1].distance = 500
    /\ Len(calc.out.value[1]) = 4

\* the inputs C16 says make the call fail
MustThrow(routes) ==
    \/ Len(routes) = 0
    \/ Len(routes) > 3
    \/ \E i \in 1..Len(routes) :
          ~routes[i].hasGeometry \/ Len(routes[i].coordinates) < 2

\* C16: computeBreakpoints throws, and the caller gets no value, when the list
\* is empty, has more than 3 routes, or a route at any position has no
\* geometry or fewer than 2 pairs; for every other list it returns one
\* RouteBreakpoints per route, the i-th made of interior-or-clamped vertices
\* of the i-th route's own geometry.
C16_ThrowsOrOnePerRoute ==
    Extracted =>
        IF MustThrow(calc.routes)
        THEN calc.out = [threw |-> TRUE, value |-> <<>>]
        ELSE /\ ~calc.out.threw
             /\ Len(calc.out.value) = Len(calc.routes)
             /\ \A i \in 1..Len(calc.routes) :
                  \A s \in 1..Len(calc.out.value[i]) :
                     \E k \in 1..Len(calc.routes[i].coordinates) :
                        /\ calc.out.value[i][s].lon = calc.routes[i].coordinates[k][1]
                        /\ calc.out.value[i][s].lat = calc.routes[i].coordinates[k][2]

\* a list of three routes whose last has a 1-pair geometry, after two routes
\* that are fine: the call threw and handed back nothing
C16_Witness ==
    /\ Extracted
    /\ Len(calc.routes) = 3
    /\ ~MustThrow(SubSeq(calc.routes, 1, 2))
    /\ Len(calc.routes[3].coordinates) = 1
    /\ calc.out.threw
    /\ calc.out.value = <<>>

\* three different routes were returned three entries, each with points
C16_ReturnReached ==
    /\ Extracted
    /\ Len(calc.routes) = 3
    /\ ~calc.out.threw
    /\ calc.routes[1].coordinates # calc.routes[2].coordinates
    /\ \A i \in 1..3 : Len(calc.out.value[i]) >= 1

-----------------------------------------------------------------------------
(* Claims on the input checks of the fetchers                               *)

\* the HTTP requests the call has issued so far: tasks whose fetch has started
FxRequestsIssued == {t \in 1..Len(fx.tasks) : fx.ts[t].phase # "idle"}

\* nothing of the call exists but its rejection: no task, no request, no batch,
\* no result entry
FxNothingDone ==
    /\ fx.tasks = <<>> /\ fx.ts = <<>>
    /\ FxRequestsIssued = {}
    /\ fx.batchLog = <<>>
    /\ fx.failures = 0
    /\ fx.pointResultsMap = <<>>
    /\ fx.results = <<>>

\* C17: without the provider API key computeAQI / computeWeather rejects the
\* whole call before any HTTP request; with an empty route list it rejects
\* with the invalid-input error; in neither case is a partial result returned.
C17_FailFast ==
    /\ (~fx.apiKey \/ Len(fx.routes) = 0) =>
            /\ fx.status \in {"init", "rejected"}
            /\ FxNothingDone
    /\ (fx.status = "rejected" /\ ~fx.apiKey /\ Len(fx.routes) > 0) =>
            fx.error = "API_KEY not configured"
    /\ (fx.status = "rejected" /\ Len(fx.routes) = 0) =>
            fx.error = "No routes provided"
    /\ fx.status = "rejected" => fx.results = <<>>
    /\ fx.results # <<>> =>
            /\ fx.status = "resolved"
            /\ Len(fx.results) = Len(fx.routes)

\* a call for three routes with points has been rejected for the missing key
C17_Witness ==
    /\ fx.status = "rejected"
    /\ ~fx.apiKey
    /\ Len(fx.routes) = 3
    /\ fx.error = "API_KEY not configured"

\* a call with the key present has been rejected for its empty route list
C17_EmptyRejected ==
    /\ fx.status = "rejected"
    /\ fx.apiKey
    /\ Len(fx.routes) = 0
    /\ fx.error = "No routes provided"


-----------------------------------------------------------------------------
(* calculateAQIScore over the routes of one request: the scoring loop of    *)
(* getScoreController calls it once per route                               *)

\* most points of a route in the two-route scoring runs
MaxPairPts == 2

\* AQI values giving averages in every bracket, on its limits and next to them
PairAQIValues == {20, 21, 100, 150, 250, 301}

PairReadings == [k : {"num"}, v : PairAQIValues] \cup {[k |-> "null", v |-> 0]}

PairPointLists == UNION {[1..n -> PairReadings] : n \in 0..MaxPairPts}

PairInit ==
    /\ \E a \in PairPointLists, b \in PairPointLists :
         calc = [fn |-> "calculateAQIScore", done |-> FALSE,
                 routes |-> <<a, b>>, i |-> 0, out |-> <<>>]
    /\ bp = BPStart /\ aqiCalc = AQICalcIdle /\ fx = FxIdle
    /\ sched = SchedIdle /\ api = ApiIdle

\* one turn of "for (let i = 0; i < routes.length; i++)": aqiScore of route i
PairScoreRoute ==
    /\ calc.fn = "calculateAQIScore"
    /\ calc.i < Len(calc.routes)
    /\ calc' = [calc EXCEPT !.i = @ + 1,
                            !.out = Append(@, calculateAQIScore(calc.routes[calc.i + 1])),
                            !.done = (calc.i + 1 = Len(calc.routes))]
    /\ UNCHANGED <<bp, aqiCalc, fx, sched, api>>

PairNext == PairScoreRoute

SpecAQIPair == PairInit /\ [][PairNext]_vars

\* like comparisons of two averages t1/n1 and t2/n2, n1, n2 > 0
AvgLess(x, y) ==
    TotalAQI(x) * ValidPoints(y) < TotalAQI(y) * ValidPoints(x)

\* C18: the AQI score is non-increasing in the average AQI: of two routes, each
\* with at least one valid reading, the one with the lower average never gets
\* the lower score, across bracket limits and after rounding to one decimal.
C18_ScoreNonIncreasing ==
    calc.done =>
        \A x \in 1..2, y \in 1..2 :
            ( /\ ValidPoints(calc.routes[x]) > 0
              /\ ValidPoints(calc.routes[y]) > 0
              /\ AvgLess(calc.routes[x], calc.routes[y]) )
            => calc.out[x].score >= calc.out[y].score

\* averages 20.5 and 60.5, in neighbouring brackets, scored 99.7 and 73.7
C18_Witness ==
    /\ calc.done
    /\ calc.routes = << << [k |-> "num", v |-> 20], [k |-> "num", v |-> 21] >>,
                        << [k |-> "num", v |-> 21], [k |-> "num", v |-> 100] >> >>
    /\ calc.out[1].score = 997
    /\ calc.out[2].score = 737


-----------------------------------------------------------------------------
(* The bracket table of calculateAQIScore                                   *)

\* the stated brackets (lo, hi] with the scores at lo and at hi
AQIBrackets ==
    { [lo |-> 20,  hi |-> 50,  from |-> 100, to |-> 80, category |-> "Good"],
      [lo |-> 50,  hi |-> 100, from |-> 80,  to |-> 50, category |-> "Moderate"],
      [lo |-> 100, hi |-> 150, from |-> 50,  to |-> 30,
       category |-> "Unhealthy for Sensitive Groups"],
      [lo |-> 150, hi |-> 200, from |-> 30,  to |-> 10, category |-> "Unhealthy"],
      [lo |-> 200, hi |-> 300, from |-> 10,  to |-> 0,  category |-> "Very Unhealthy"] }

\* score (tenths) is the one-decimal rounding of the straight line through
\* (lo, from) and (hi, to) at the average t / n: it differs from the exact
\* value by at most half a tenth
OnLine(score, b, t, n) ==
    LET w == b.hi - b.lo
        exactTimesWN == 10 * b.from * w * n - 10 * (b.from - b.to) * (t - b.lo * n)
    IN Abs(2 * (score * w * n - exactTimesWN)) <= w * n

-----------------------------------------------------------------------------
(* The score of one route: the callback of routes.map in getScoreController *)

\* most weather points and most AQI points of the scored route
MaxScorePts == 2

\* point.main of a PointWeatherResult: null, or temp (deg C), humidity (%),
\* pressure (hPa): ideal, inside the flat ranges' edges, mild, and extreme
WeatherMains ==
    { [temp |-> 21,  humidity |-> 50,  pressure |-> 1013],
      [temp |-> 22,  humidity |-> 55,  pressure |-> 1015],
      [temp |-> 24,  humidity |-> 60,  pressure |-> 1005],
      [temp |-> -20, humidity |-> 110, pressure |-> 900] }

WeatherPoints == [hasMain : {TRUE}, main : WeatherMains]
    \cup {[hasMain |-> FALSE, main |-> [temp |-> 0, humidity |-> 0, pressure |-> 0]]}

WeatherPointLists == UNION {[1..n -> WeatherPoints] : n \in 0..MaxScorePts}

ScoreAQIReadings == [k : {"num"}, v : {10, 250, 301}] \cup {[k |-> "null", v |-> 0]}

ScoreAQILists == UNION {[1..n -> ScoreAQIReadings] : n \in 0..MaxScorePts}

\* traffic[index]: absent, or a congestion factor, counted in halves:
\* -1, 0, 0.5, 1, 1.5, 2, 2.5, 3, 4
AbsentTraffic == [given |-> FALSE, v |-> 0]
TrafficValues == {-2, 0, 1, 2, 3, 4, 5, 6, 8}
TrafficInputs == [given : {TRUE}, v : TrafficValues] \cup {AbsentTraffic}

\* traffic[index] || 0
TrafficValueOf(input) == IF input.given THEN input.v ELSE 0

\* whole points out of 100
calculateTemperatureScore(temp) ==
    LET diff == Abs(temp - 21)
    IN IF diff <= 1 THEN 100 ELSE Max(0, 100 - diff * 6)

calculateHumidityScore(humidity) ==
    IF humidity >= 45 /\ humidity <= 55 THEN 100
    ELSE Max(0, 100 - (Abs(humidity - 50) - 5) * 2)

calculatePressureScore(pressure) ==
    LET diff == Abs(pressure - 1013)
    IN IF diff <= 2 THEN 100 ELSE Max(0, 100 - (diff - 2) * 4)

\* sum of score(point.main) over the points that have a main
RECURSIVE TotalOf(_, _)
TotalOf(points, which) ==
    IF points = <<>> THEN 0
    ELSE (IF Head(points).hasMain
          THEN (CASE which = "temp" -> calculateTemperatureScore(Head(points).main.temp)
                  [] which = "humidity" -> calculateHumidityScore(Head(points).main.humidity)
                  [] which = "pressure" -> calculatePressureScore(Head(points).main.pressure)
                  [] OTHER -> 1)
          ELSE 0)
         + TotalOf(Tail(points), which)

\* mutant: a route without a weather reading is scored as ideal weather
calculateWeatherScoreNoDataIdeal(points) ==
    LET n == TotalOf(points, "count")
        T == TotalOf(points, "temp")
        H == TotalOf(points, "humidity")
        P == TotalOf(points, "pressure")
    IN IF n = 0
       THEN [temperature |-> 1000, humidity |-> 1000, pressure |-> 1000, overall |-> 1000]
       ELSE [temperature |-> RoundDiv(10 * T, n),
             humidity |-> RoundDiv(10 * H, n),
             pressure |-> RoundDiv(10 * P, n),
             overall |-> RoundDiv(5 * T + 3 * H + 2 * P, n)]

\* the four fields in tenths; overall = temp * 0.5 + humidity * 0.3 + pressure * 0.2
calculateWeatherScore(points) ==
    LET n == TotalOf(points, "count")
        T == TotalOf(points, "temp")
        H == TotalOf(points, "humidity")
        P == TotalOf(points, "pressure")
    IN IF n = 0
       THEN [temperature |-> 0, humidity |-> 0, pressure |-> 0, overall |-> 0]
       ELSE [temperature |-> RoundDiv(10 * T, n),
             humidity |-> RoundDiv(10 * H, n),
             pressure |-> RoundDiv(10 * P, n),
             overall |-> RoundDiv(5 * T + 3 * H + 2 * P, n)]

\* Math.round((1 - Math.pow(v / 3, 0.7)) * 1000) for v = 0.5, 1, 1.5, 2, 2.5:
\* (1/6)^0.7 = 0.28529.., (1/3)^0.7 = 0.46346.., (1/2)^0.7 = 0.61557..,
\* (2/3)^0.7 = 0.75289.., (5/6)^0.7 = 0.88018..
PenaltyCurve == <<715, 537, 384, 247, 120>>

\* mutant: the score is the penalty
calculateTrafficScoreAsPenalty(trafficValue) ==
    IF trafficValue <= 0 THEN 1000
    ELSE IF trafficValue >= 6 THEN 0
    ELSE 1000 - PenaltyCurve[trafficValue]

\* in tenths, trafficValue in halves: 100 up to 0; Math.min(v / 3, 1) is 1 from
\* 3 on, which gives 0; the curve in between
calculateTrafficScore(trafficValue) ==
    IF trafficValue <= 0 THEN 1000
    ELSE IF trafficValue >= 6 THEN 0
    ELSE PenaltyCurve[trafficValue]

\* mutant: the weights add up to 1.1
overallScoreHeavy(weather, aqi, traffic) ==
    RoundDiv(4 * weather + 4 * aqi + 3 * traffic, 10)

\* Math.round((weather * 0.4 + aqi * 0.3 + traffic * 0.3) * 10), all in tenths
overallScore(weather, aqi, traffic) ==
    RoundDiv(4 * weather + 3 * aqi + 3 * traffic, 10)

routeScore(weatherPoints, aqiPoints, trafficInput) ==
    LET aqiScore == calculateAQIScore(aqiPoints)
        weatherScore == calculateWeatherScore(weatherPoints)
        trafficScore == calculateTrafficScore(TrafficValueOf(trafficInput))
    IN [weatherScore |-> weatherScore, aqiScore |-> aqiScore,
        trafficScore |-> trafficScore,
        overallScore |-> overallScore(weatherScore.overall, aqiScore.score, trafficScore)]

RouteScoreInit ==
    /\ \E w \in WeatherPointLists, a \in ScoreAQILists, t \in TrafficInputs :
         calc = [fn |-> "routeScore", done |-> FALSE,
                 weather |-> w, aqi |-> a, traffic |-> t,
                 out |-> routeScore(<<>>, <<>>, AbsentTraffic)]
    /\ bp = BPStart /\ aqiCalc = AQICalcIdle /\ fx = FxIdle
    /\ sched = SchedIdle /\ api = ApiIdle

ScoreRoute ==
    /\ calc.fn = "routeScore"
    /\ ~calc.done
    /\ calc' = [calc EXCEPT !.done = TRUE,
                            !.out = routeScore(calc.weather, calc.aqi, calc.traffic)]
    /\ UNCHANGED <<bp, aqiCalc, fx, sched, api>>

RouteScoreNext == ScoreRoute

SpecRouteScore == RouteScoreInit /\ [][RouteScoreNext]_vars

\* sub-score values, in tenths, the weighted sum is tried on
SubScoreSamples == {0, 1, 4, 5, 333, 500, 995, 999, 1000}

\* the weighted sum of every combination of the samples is within [0,100]
WeightedSumInRange ==
    \A w \in SubScoreSamples, a \in SubScoreSamples, t \in SubScoreSamples :
        overallScore(w, a, t) \in 0..1000

\* C20: for sub-scores within [0,100] the overall score, the one-decimal
\* rounding of 0.4 weather + 0.3 aqi + 0.3 traffic, lies within [0,100]; the
\* sub-scores of a scored route lie within [0,100], hence so does its overall
\* score.
C20_OverallInRange ==
    /\ WeightedSumInRange
    /\ calc.done =>
          LET out == calc.out
          IN /\ out.weatherScore.overall \in 0..1000
             /\ out.aqiScore.score \in 0..1000
             /\ out.trafficScore \in 0..1000
             /\ out.overallScore \in 0..1000
             /\ Abs(10 * out.overallScore
                    - (4 * out.weatherScore.overall + 3 * out.aqiScore.score
                       + 3 * out.trafficScore)) <= 5

\* ideal weather, AQI 10 and no traffic entry: every sub-score and the overall
\* score are 100
C20_Witness ==
    /\ calc.done
    /\ calc.weather = << [hasMain |-> TRUE,
                          main |-> [temp |-> 21, humidity |-> 50, pressure |-> 1013]] >>
    /\ calc.aqi = << [k |-> "num", v |-> 10] >>
    /\ calc.traffic = AbsentTraffic
    /\ calc.out.overallScore = 1000

\* no weather reading, AQI 301 and severe traffic: the overall score is 0
C20_FloorReached ==
    /\ calc.done
    /\ calc.weather = << [hasMain |-> FALSE,
                          main |-> [temp |-> 0, humidity |-> 0, pressure |-> 0]] >>
    /\ calc.aqi = << [k |-> "num", v |-> 301] >>
    /\ calc.traffic = [given |-> TRUE, v |-> 6]
    /\ calc.out.overallScore = 0

\* mild weather, AQI 250 and traffic 1: 0.4 * 83.2 + 0.3 * 5 + 0.3 * 53.7 = 50.9
C20_MidReached ==
    /\ calc.done
    /\ calc.weather = << [hasMain |-> TRUE,
                          main |-> [temp |-> 24, humidity |-> 60, pressure |-> 1005]] >>
    /\ calc.aqi = << [k |-> "num", v |-> 250] >>
    /\ calc.traffic = [given |-> TRUE, v |-> 2]


-----------------------------------------------------------------------------
(* calculateTrafficScore over the routes of one request                     *)

\* the traffic array of a request: index-aligned with the routes, possibly
\* shorter
TrafficArrays == UNION {[1..n -> TrafficValues] : n \in 0..MAX_ROUTES}

TrafficInit ==
    /\ \E n \in 1..MAX_ROUTES, traffic \in TrafficArrays :
         calc = [fn |-> "calculateTrafficScore", done |-> FALSE,
                 routes |-> n, traffic |-> traffic, i |-> 0, out |-> <<>>]
    /\ bp = BPStart /\ aqiCalc = AQICalcIdle /\ fx = FxIdle
    /\ sched = SchedIdle /\ api = ApiIdle

\* traffic[index] of the request
TrafficEntry(traffic, index) ==
    IF index <= Len(traffic) THEN [given |-> TRUE, v |-> traffic[index]]
    ELSE AbsentTraffic

\* one turn of routes.map: trafficScore of the route at calc.i
TrafficScoreRoute ==
    /\ calc.fn = "calculateTrafficScore"
    /\ calc.i < calc.routes
    /\ calc' = [calc EXCEPT
                  !.i = @ + 1,
                  !.out = Append(@, calculateTrafficScore(
                                      TrafficValueOf(TrafficEntry(calc.traffic, calc.i + 1)))),
                  !.done = (calc.i + 1 = calc.routes)]
    /\ UNCHANGED <<bp, aqiCalc, fx, sched, api>>

TrafficNext == TrafficScoreRoute

SpecTraffic == TrafficInit /\ [][TrafficNext]_vars

\* C21: the traffic score is 100 for every congestion value <= 0 and for a
\* missing traffic entry, 0 for every value >= 3, and in between a value within
\* [0,100] that is non-increasing in the congestion value.
C21_TrafficScoreShape ==
    \A x \in 1..Len(calc.out) :
        LET e == TrafficEntry(calc.traffic, x)
        IN /\ calc.out[x] \in 0..1000
           /\ ~e.given => calc.out[x] = 1000
           /\ (e.given /\ e.v <= 0) => calc.out[x] = 1000
           /\ (e.given /\ e.v >= 6) => calc.out[x] = 0
           /\ \A y \in 1..Len(calc.out) :
                 LET f == TrafficEntry(calc.traffic, y)
                 IN (e.given /\ f.given /\ e.v < f.v) => calc.out[x] >= calc.out[y]

\* three routes with traffic 0.5 and 2.5 and no third entry: 71.5, 12 and 100
C21_Witness ==
    /\ calc.fn = "calculateTrafficScore"
    /\ calc.done
    /\ calc.routes = 3
    /\ calc.traffic = <<1, 5>>
    /\ calc.out = <<715, 120, 1000>>


-----------------------------------------------------------------------------
(* The response data of getScoreController: routeScores, bestRoute, summary *)

NullWeatherPoint == [hasMain |-> FALSE, main |-> [temp |-> 0, humidity |-> 0, pressure |-> 0]]
IdealWeatherPoint == [hasMain |-> TRUE, main |-> [temp |-> 21, humidity |-> 50, pressure |-> 1013]]
MildWeatherPoint == [hasMain |-> TRUE, main |-> [temp |-> 24, humidity |-> 60, pressure |-> 1005]]
NullAQIPoint == [k |-> "null", v |-> 0]

\* route.lastComputedScore of the request body: the field is absent, null, or
\* a number, counted in hundredths
NoPrior == [k |-> "undefined", v |-> 0]
NullPrior == [k |-> "null", v |-> 0]
NumPrior(v) == [k |-> "num", v |-> v]

\* what one route of a request brings to the scoring: its fetched weather and
\* AQI points, its traffic entry and its lastComputedScore
Scene(weather, aqi, traffic, prior) ==
    [weather |-> weather, aqi |-> aqi, traffic |-> traffic, prior |-> prior]

RouteScenes ==
    { Scene(<<IdealWeatherPoint>>, << [k |-> "num", v |-> 10] >>, AbsentTraffic, NoPrior),
      Scene(<<NullWeatherPoint, NullWeatherPoint>>, <<NullAQIPoint, NullAQIPoint>>,
            [given |-> TRUE, v |-> 2], NoPrior),
      Scene(<<NullWeatherPoint>>, <<NullAQIPoint>>, AbsentTraffic, NumPrior(10000)),
      Scene(<<MildWeatherPoint>>, << [k |-> "num", v |-> 250] >>,
            [given |-> TRUE, v |-> 2], NumPrior(5024)),
      Scene(<<MildWeatherPoint>>, << [k |-> "num", v |-> 250] >>,
            [given |-> TRUE, v |-> 2], NullPrior),
      Scene(<<IdealWeatherPoint, NullWeatherPoint>>, << [k |-> "num", v |-> 10], NullAQIPoint >>,
            [given |-> TRUE, v |-> 0], NumPrior(8750)) }

SceneLists == UNION {[1..n -> RouteScenes] : n \in 1..MAX_ROUTES}

\* Number(route.lastComputedScore) in the subtraction: null counts as 0
PriorNumber(prior) == IF prior.k = "num" THEN prior.v ELSE 0

\* if (route.lastComputedScore !== undefined)
\*     scoreChange = Math.round((overallScore - route.lastComputedScore) * 10) / 10
\* in tenths; an undefined scoreChange is left out of the JSON response
scoreChange(overall, prior) ==
    IF prior.k # "undefined"
    THEN [emitted |-> TRUE, v |-> RoundDiv(10 * overall - PriorNumber(prior), 10)]
    ELSE [emitted |-> FALSE, v |-> 0]

\* the object the callback of routes.map returns for the route at index
RouteScoreEntry(index, scene) ==
    LET rs == routeScore(scene.weather, scene.aqi, scene.traffic)
    IN [routeIndex |-> index,
        weatherScore |-> rs.weatherScore,
        aqiScore |-> rs.aqiScore,
        trafficScore |-> rs.trafficScore,
        overallScore |-> rs.overallScore,
        lastComputedScore |-> scene.prior,
        scoreChange |-> scoreChange(rs.overallScore, scene.prior)]

\* mutant: a later route with the same score replaces the best one
ReduceBestLast(routeScores, k, best) ==
    IF routeScores[k].overallScore >= best.overallScore THEN routeScores[k] ELSE best

\* one step of routeScores.reduce((best, current) =>
\*     current.overallScore > best.overallScore ? current : best)
ReduceBest(routeScores, k, best) ==
    IF routeScores[k].overallScore > best.overallScore THEN routeScores[k] ELSE best

RECURSIVE ReduceFrom(_, _, _)
ReduceFrom(routeScores, k, best) ==
    IF k > Len(routeScores) THEN best
    ELSE ReduceFrom(routeScores, k + 1, ReduceBest(routeScores, k, best))

RECURSIVE SumScores(_)
SumScores(routeScores) ==
    IF routeScores = <<>> THEN 0
    ELSE Head(routeScores).overallScore + SumScores(Tail(routeScores))

\* Math.min(...) / Math.max(...) of the overall scores
MinScore(routeScores) ==
    CHOOSE m \in {routeScores[k].overallScore : k \in 1..Len(routeScores)} :
        \A k \in 1..Len(routeScores) : m <= routeScores[k].overallScore
MaxScore(routeScores) ==
    CHOOSE m \in {routeScores[k].overallScore : k \in 1..Len(routeScores)} :
        \A k \in 1..Len(routeScores) : m >= routeScores[k].overallScore

\* responseData.data
ResponseData(routeScores) ==
    LET bestRoute == ReduceFrom(routeScores, 2, routeScores[1])
    IN [routes |-> routeScores,
        bestRoute |-> [index |-> bestRoute.routeIndex, score |-> bestRoute.overallScore],
        summary |-> [totalRoutes |-> Len(routeScores),
                     averageScore |-> RoundDiv(SumScores(routeScores), Len(routeScores)),
                     scoreRange |-> [min |-> MinScore(routeScores),
                                     max |-> MaxScore(routeScores)]]]

NoResponseData ==
    [routes |-> <<>>, bestRoute |-> [index |-> -1, score |-> 0],
     summary |-> [totalRoutes |-> 0, averageScore |-> 0,
                  scoreRange |-> [min |-> 0, max |-> 0]]]

RespondInit ==
    /\ \E scenes \in SceneLists :
         calc = [fn |-> "respond", done |-> FALSE, scenes |-> scenes, i |-> 0,
                 routeScores |-> <<>>, status |-> 0, data |-> NoResponseData]
    /\ bp = BPStart /\ aqiCalc = AQICalcIdle /\ fx = FxIdle
    /\ sched = SchedIdle /\ api = ApiIdle

\* one turn of routes.map((route, index) => ...)
RespondScoreRoute ==
    /\ calc.fn = "respond"
    /\ calc.i < Len(calc.scenes)
    /\ calc' = [calc EXCEPT
                  !.i = @ + 1,
                  !.routeScores = Append(@, RouteScoreEntry(calc.i, calc.scenes[calc.i + 1]))]
    /\ UNCHANGED <<bp, aqiCalc, fx, sched, api>>

\* bestRoute, summary and res.json
RespondSend ==
    /\ calc.fn = "respond"
    /\ ~calc.done
    /\ calc.i = Len(calc.scenes)
    /\ calc' = [calc EXCEPT !.done = TRUE, !.status = 200,
                            !.data = ResponseData(calc.routeScores)]
    /\ UNCHANGED <<bp, aqiCalc, fx, sched, api>>

RespondNext == RespondScoreRoute \/ RespondSend

SpecRespond == RespondInit /\ [][RespondNext]_vars


-----------------------------------------------------------------------------
(* Claims on the response data                                              *)

Sent == calc.fn = "respond" /\ calc.done

\* C22: in every 200 response bestRoute.score is the maximum overallScore over
\* data.routes and equals summary.scoreRange.max, and bestRoute.index is the
\* routeIndex of a route attaining it, the lowest such index on a tie.
C22_BestRouteIsFirstMaximum ==
    (Sent /\ calc.status = 200) =>
        LET routes == calc.data.routes
            best == calc.data.bestRoute
        IN /\ \A k \in 1..Len(routes) : routes[k].overallScore <= best.score
           /\ best.score = calc.data.summary.scoreRange.max
           /\ \E k \in 1..Len(routes) :
                 /\ routes[k].routeIndex = best.index
                 /\ routes[k].overallScore = best.score
                 /\ \A j \in 1..Len(routes) :
                       routes[j].overallScore = best.score
                           => routes[j].routeIndex >= best.index

\* three routes scored 30, 50.9 and 50.9: the best route is index 1, not 2
C22_Witness ==
    /\ Sent
    /\ Len(calc.data.routes) = 3
    /\ calc.data.routes[1].overallScore = 300
    /\ calc.data.routes[2].overallScore = 509
    /\ calc.data.routes[3].overallScore = 509
    /\ calc.data.bestRoute = [index |-> 1, score |-> 509]

AllNull(scene) ==
    /\ \A p \in 1..Len(scene.weather) : ~scene.weather[p].hasMain
    /\ \A p \in 1..Len(scene.aqi) : scene.aqi[p].k = "null"

\* C23: a route whose weather readings and AQI readings are all null does not
\* fail the request: the response is 200, that route has weatherScore.overall 0,
\* aqiScore {0, 0, "Unknown - No Data"} and overallScore = the one-decimal
\* rounding of 0.3 x trafficScore, and the other routes are scored as usual.
C23_NullRouteStillScored ==
    (Sent /\ \E x \in 1..Len(calc.scenes) : AllNull(calc.scenes[x])) =>
        /\ calc.status = 200
        /\ Len(calc.data.routes) = Len(calc.scenes)
        /\ \A x \in 1..Len(calc.scenes) :
              LET r == calc.data.routes[x]
              IN IF AllNull(calc.scenes[x])
                 THEN /\ r.weatherScore.overall = 0
                      /\ r.aqiScore = [aqi |-> 0, score |-> 0, category |-> "Unknown - No Data"]
                      /\ Abs(10 * r.overallScore - 3 * r.trafficScore) <= 5
                 ELSE \* as in a request of this route alone
                      /\ r.weatherScore.overall > 0
                      /\ r.aqiScore.category # "Unknown - No Data"
                      /\ Abs(10 * r.overallScore
                             - (4 * r.weatherScore.overall + 3 * r.aqiScore.score
                                + 3 * r.trafficScore)) <= 5
                      /\ calc.scenes[x].weather = <<IdealWeatherPoint>> => r.overallScore = 1000

\* an all-null route with traffic 1 between two routes in ideal conditions:
\* 0.3 x 53.7 = 16.1 for it, 100 for the others
C23_Witness ==
    /\ Sent
    /\ calc.status = 200
    /\ Len(calc.scenes) = 3
    /\ AllNull(calc.scenes[2])
    /\ Len(calc.scenes[2].weather) = 2
    /\ calc.data.routes[2].overallScore = 161
    /\ calc.data.routes[1].overallScore = 1000
    /\ calc.data.routes[3].overallScore = 1000

\* C24: a route's score carries a score delta exactly when the request gave
\* a numeric lastComputedScore for the route, and then the delta is the
\* one-decimal rounding of overallScore - prior; with the field absent or null
\* no delta is emitted.
C24_DeltaIffNumericPrior ==
    Sent =>
        \A x \in 1..Len(calc.scenes) :
            LET r == calc.data.routes[x]
                prior == calc.scenes[x].prior
            IN /\ r.scoreChange.emitted <=> prior.k = "num"
               /\ prior.k = "num" =>
                     Abs(10 * r.scoreChange.v - (10 * r.overallScore - prior.v)) <= 5

\* what the code does: the delta is absent exactly when the field is absent,
\* and a null lastComputedScore is subtracted as 0
C24_DeltaUnlessAbsent ==
    Sent =>
        \A x \in 1..Len(calc.scenes) :
            LET r == calc.data.routes[x]
                prior == calc.scenes[x].prior
            IN /\ r.scoreChange.emitted <=> prior.k # "undefined"
               /\ prior.k = "num" =>
                     Abs(10 * r.scoreChange.v - (10 * r.overallScore - prior.v)) <= 5
               /\ prior.k = "null" => r.scoreChange.v = r.overallScore

\* a route sent with lastComputedScore null and scored 50.9 carries the delta 50.9
C24_NullPriorDelta ==
    /\ Sent
    /\ Len(calc.scenes) = 1
    /\ calc.scenes[1].prior = NullPrior
    /\ calc.data.routes[1].overallScore = 509
    /\ calc.data.routes[1].scoreChange = [emitted |-> TRUE, v |-> 509]

\* a route sent with lastComputedScore 50.24 and scored 50.9 carries the delta 0.7
C24_NumericPriorDelta ==
    /\ Sent
    /\ Len(calc.scenes) = 1
    /\ calc.scenes[1].prior = NumPrior(5024)
    /\ calc.data.routes[1].scoreChange = [emitted |-> TRUE, v |-> 7]


-----------------------------------------------------------------------------
(* Claims on score-compute requests with too short a geometry               *)

\* the body has the fields the validation asks for, and a route whose
\* routeGeometry has no coordinates or fewer than 2 pairs
ShortGeometry(body) ==
    /\ ~RejectedByContract(body)
    /\ \E i \in 1..Len(body.routes) : Len(body.routes[i].coordinates) < 2

\* C25: a score-compute request with a route whose routeGeometry has no
\* coordinates or fewer than 2 pairs is answered as an input-validation failure
\* (400 with a validation message), without provider fetch, retry or cache write.
C25_ShortGeometryRejectedAs400 ==
    \A q \in 1..Len(api.reqs) :
        LET req == api.reqs[q]
        IN (ShortGeometry(req.body) /\ req.pc = "done") =>
             /\ req.resp.status = 400
             /\ req.resp.message \in ValidationMessages
             /\ req.fetches = 0
             /\ req.sets = [score |-> "none", bps |-> "none"]

\* what the code does with such a request: the validation lets it through,
\* the score cache is read, computeBreakpoints throws and the outer catch
\* answers 500 with the generic message; no fetch and no cache write is made
C25_ShortGeometryAnswered500 ==
    \A q \in 1..Len(api.reqs) :
        LET req == api.reqs[q]
        IN ShortGeometry(req.body) =>
             /\ req.pc \in {"get", "done"}
             /\ req.fetches = 0
             /\ req.sets = [score |-> "none", bps |-> "none"]
             /\ api.scoreCache = {} /\ api.bpCache = {}
             /\ req.pc = "done" =>
                   /\ req.resp = Error500
                   /\ req.cacheOps = 1
                   /\ req.extractions = 1

\* a request of two routes, the second with an empty coordinates array, has
\* been answered 500
C25_EmptyCoordinatesAnswered ==
    \E q \in 1..Len(api.reqs) :
        /\ Len(api.reqs[q].body.routes) = 2
        /\ api.reqs[q].body.routes[2].coordinates = <<>>
        /\ api.reqs[q].pc = "done"
        /\ api.reqs[q].resp.status = 500


-----------------------------------------------------------------------------
(* Claims on save-route against delete-route                                *)

\* every request has been answered and no database call of a delete failed
SaveDeleteQuiet ==
    /\ \A s \in 1..Len(api.saves) : api.saves[s].pc = "done"
    /\ \A d \in 1..Len(api.deletes) :
          api.deletes[d].pc = "done" /\ ~api.deletes[d].dbFailed

RouteIds == {api.db.routes[k].id : k \in 1..Len(api.db.routes)}

Orphans == {b \in api.db.breakpoints : b.routeId \notin RouteIds}

\* C26: when the save-route and delete-route operations have run to completion,
\* every persisted BreakPoint's routeId is the id of an existing saved route,
\* also when a delete ran between the route creation and the breakpoint
\* insertion of the save.
C26_NoOrphanBreakpoints ==
    SaveDeleteQuiet => Orphans = {}

\* what the code ensures: breakpoints are left behind only for a route that
\* was deleted while the save creating it was still under way
C26_OrphansOnlyFromRace ==
    SaveDeleteQuiet =>
        \A b \in Orphans :
            \E d \in 1..Len(api.deletes) :
                api.deletes[d].id = b.routeId /\ api.deletes[d].raced

\* save and delete both answered success (201, 200), no database call failed,
\* and the deleted route's breakpoints are in the collection
C26_OrphanLeft ==
    /\ SaveDeleteQuiet
    /\ Len(api.saves) = 1 /\ api.saves[1].status = 201
    /\ Len(api.deletes) = 1 /\ api.deletes[1].status = 200
    /\ api.faults = 0
    /\ api.db.routes = <<>>
    /\ api.db.breakpoints # {}

\* a route saved with its breakpoints and deleted afterwards leaves nothing
C26_CleanDelete ==
    /\ SaveDeleteQuiet
    /\ Len(api.saves) = 1 /\ api.saves[1].status = 201 /\ api.saves[1].docs # {}
    /\ Len(api.deletes) = 1 /\ api.deletes[1].status = 200 /\ ~api.deletes[1].raced
    /\ api.db = EmptyDB


-----------------------------------------------------------------------------
(* One extractBreakpoints call on a geometry crowded with used coordinates  *)

\* lengths of the geometries: the shortest ones, and ones longer than the
\* reach of the probes
ProbeLens == {2, 3, 5, 12, 21, 24}

\* the sets of at most two indices
FreeSets(len) == {{}} \cup {{a, b} : a \in 0..(len - 1), b \in 0..(len - 1)}

ProbeInit ==
    /\ \E len \in ProbeLens, count \in {1, 3, 4} :
         \E free \in FreeSets(len) :
            calc = [fn |-> "extractBreakpoints", done |-> FALSE,
                    coordinates |-> CrowdedGeometry(len, free), count |-> count, i |-> 0,
                    st |-> [bps |-> <<>>, used |-> << [lat |-> 0, lon |-> 0] >>],
                    usedBefore |-> <<>>]
    /\ bp = BPStart /\ aqiCalc = AQICalcIdle /\ fx = FxIdle
    /\ sched = SchedIdle /\ api = ApiIdle

\* one turn of "for (let i = 0; i < count; i++)"
ProbeIteration ==
    /\ calc.fn = "extractBreakpoints"
    /\ Len(calc.coordinates) >= 2
    /\ calc.i < calc.count
    /\ calc' = [calc EXCEPT
                  !.i = @ + 1,
                  !.usedBefore = calc.st.used,
                  !.st = ExtractStep(calc.coordinates, calc.count, calc.i, calc.st),
                  !.done = (calc.i + 1 = calc.count)]
    /\ UNCHANGED <<bp, aqiCalc, fx, sched, api>>

ProbeNext == ProbeIteration

SpecProbe == ProbeInit /\ [][ProbeNext]_vars

\* the turn just made: its nominal index, whether a breakpoint was pushed, and
\* the index it was taken from
LastNominal == SafeIndex(calc.i - 1, calc.count, Len(calc.coordinates))
LastPushed == Len(calc.st.used) > Len(calc.usedBefore)
LastIndex == calc.st.bps[Len(calc.st.bps)].idx

\* index j is within [1, len-2] and its coordinate collides with none chosen
\* before the turn
Qualifies(j) ==
    /\ 1 <= j /\ j <= Len(calc.coordinates) - 2
    /\ ~IsDuplicate(CoordAt(calc.coordinates, j).coord, calc.usedBefore)

\* j is probed before m in the order s+1, s-1, s+2, s-2, ...
ProbedBefore(j, m, n) ==
    \/ Abs(j - n) < Abs(m - n)
    \/ (Abs(j - n) = Abs(m - n) /\ j > n /\ m < n)

Probed(n) == {j \in (n - 9)..(n + 9) : j # n}

\* C27: when the nominal candidate at index s collides, the indices s+1, s-1,
\* s+2, s-2, ..., s+9, s-9 are probed in that order, those outside [1, len-2]
\* skipped; the first one colliding with no chosen coordinate is selected, and
\* the breakpoint is dropped only if none of them qualifies.
C27_ProbeOrder ==
    (calc.fn = "extractBreakpoints" /\ calc.i > 0
     /\ IsDuplicate(CoordAt(calc.coordinates, LastNominal).coord, calc.usedBefore)) =>
        IF LastPushed
        THEN /\ LastIndex \in Probed(LastNominal)
             /\ Qualifies(LastIndex)
             /\ \A j \in Probed(LastNominal) :
                   ProbedBefore(j, LastIndex, LastNominal) => ~Qualifies(j)
        ELSE \A j \in Probed(LastNominal) : ~Qualifies(j)

\* 21 pairs, nominal index 10, free only at index 1 and at the end vertex 20:
\* the last of the 18 probes, 10 - 9, is taken
C27_Witness ==
    /\ calc.fn = "extractBreakpoints"
    /\ Len(calc.coordinates) = 21 /\ calc.count = 1 /\ calc.i = 1
    /\ calc.coordinates = CrowdedGeometry(21, {1, 20})
    /\ LastNominal = 10
    /\ LastPushed /\ LastIndex = 1

\* 24 pairs, nominal index 12, free only at indices 2 and 22, both within the
\* geometry but 10 away: the breakpoint is dropped
C27_Dropped ==
    /\ calc.fn = "extractBreakpoints"
    /\ calc.coordinates = CrowdedGeometry(24, {2, 22})
    /\ calc.count = 1 /\ calc.i = 1
    /\ ~LastPushed /\ calc.st.bps = <<>>

\* 12 pairs, nominal index 6, free at 4 and 8: 6 + 2 is taken, not 6 - 2
C27_ForwardFirst ==
    /\ calc.fn = "extractBreakpoints"
    /\ calc.coordinates = CrowdedGeometry(12, {4, 8})
    /\ calc.count = 1 /\ calc.i = 1
    /\ LastPushed /\ LastIndex = 8


-----------------------------------------------------------------------------
(* Claims on the slots of a RouteBreakpoints                                *)

\* the coordinates pushed by the turns i, i+1, ..., count-1 of the loop on one
\* route, in the order of the turns; a turn that drops its candidate adds none
RECURSIVE PushedFrom(_, _, _, _)
PushedFrom(coordinates, count, i, used) ==
    IF i >= count THEN <<>>
    ELSE LET after == ExtractStep(coordinates, count, i, [bps |-> <<>>, used |-> used])
         IN (IF after.bps = <<>> THEN <<>> ELSE <<after.bps[1].coord>>)
            \o PushedFrom(coordinates, count, i + 1, after.used)

\* C28: in every RouteBreakpoints returned by computeBreakpoints the occupied
\* slots are exactly point_1..point_k without gaps, filled in the order the
\* nominal positions were processed, with 0 <= k <= count(distance) <= 4; a
\* dropped candidate shifts the later breakpoints down one slot and raises no
\* error; one request yields at most 12 breakpoints.
C28_SlotsInOrder ==
    (Extracted /\ ~calc.out.threw) =>
        LET value == calc.out.value
        IN /\ Len(value) = Len(calc.routes)
           /\ Len(Flatten(value)) <= 12
           /\ \A r \in 1..Len(value) :
                 LET count == calculateBreakpointCount(calc.routes[r].distance)
                     k == Len(value[r])
                 IN /\ DOMAIN value[r] = 1..k
                    /\ 0 <= k /\ k <= count /\ count <= 4
                    /\ value[r] = PushedFrom(calc.routes[r].coordinates, count, 0,
                                             Flatten(SubSeq(value, 1, r - 1)))

\* a route of 24 pairs whose second candidate (index 12) is dropped: the
\* breakpoint of the third turn, found at index 22, is in slot 2
C28_Witness ==
    /\ Extracted /\ ~calc.out.threw
    /\ calc.routes = <<RouteInput(50, CrowdedGeometry(24, {22}))>>
    /\ calc.out.value = << << [lat |-> 0, lon |-> 0], [lat |-> 0, lon |-> 23 * TOL] >> >>

\* a request of three routes has yielded 9 breakpoints or more
C28_ManyReached ==
    /\ Extracted /\ ~calc.out.threw
    /\ Len(Flatten(calc.out.value)) >= 9


-----------------------------------------------------------------------------
(* One fetchAQIForPoint call                                                *)

\* how an attempt can end: a reading; a non-2xx response; a 2xx response whose
\* body is not a valid reading; fetch rejecting (network error); the abort
\* after AQI_TIMEOUT_MS; response.json() rejecting
AttemptEndings == {"ok", "non2xx", "invalid", "network", "timeout", "badjson"}

\* the branch of the try / catch an ending takes
OutcomeOf(ending) ==
    IF ending \in {"network", "timeout", "badjson"} THEN "throw" ELSE ending

\* setTimeout(resolve, 500 * (attempt + 1)), in ms
BackoffMs(attempt) == 500 * (attempt + 1)

PointFetchInit ==
    /\ \E s \in 1..2 :
         calc = [fn |-> "fetchAQIForPoint", done |-> FALSE, point |-> PointOf(0, s),
                 task |-> [IdleTask EXCEPT !.phase = "fetch"], log |-> <<>>]
    /\ bp = BPStart /\ aqiCalc = AQICalcIdle /\ fx = FxIdle
    /\ sched = SchedIdle /\ api = ApiIdle

\* the attempt under way ends; log keeps, per attempt, how it ended and the
\* backoff awaited after it (0: none)
PointAttemptSettles ==
    /\ calc.fn = "fetchAQIForPoint"
    /\ calc.task.phase = "fetch"
    /\ \E ending \in AttemptEndings :
         LET after == AfterAttempt("aqi", calc.task, OutcomeOf(ending), calc.point)
         IN calc' = [calc EXCEPT
                       !.task = after,
                       !.done = (after.phase = "done"),
                       !.log = Append(@, [ending |-> ending,
                                          backoff |-> IF after.phase = "backoff"
                                                      THEN BackoffMs(calc.task.attempt)
                                                      ELSE 0])]
    /\ UNCHANGED <<bp, aqiCalc, fx, sched, api>>

\* the backoff timer fires: the loop goes on with the next attempt
PointBackoffElapsed ==
    /\ calc.fn = "fetchAQIForPoint"
    /\ calc.task.phase = "backoff"
    /\ calc' = [calc EXCEPT !.task = [@ EXCEPT !.phase = "fetch", !.attempt = @ + 1]]
    /\ UNCHANGED <<bp, aqiCalc, fx, sched, api>>

PointFetchNext == PointAttemptSettles \/ PointBackoffElapsed

SpecPointFetch == PointFetchInit /\ [][PointFetchNext]_vars

\* the parts of the statement that do not depend on which failures are retried
AttemptsWellFormed ==
    /\ Len(calc.log) <= 3
    /\ calc.done => Len(calc.log) >= 1
    /\ \A n \in 1..Len(calc.log) :
          /\ calc.log[n].backoff \in {0, 500 * n}
          /\ n = 3 => calc.log[n].backoff = 0
          /\ calc.log[n].backoff # 0 => n < 3
          /\ calc.log[n].ending = "ok" =>
                /\ n = Len(calc.log)
                /\ calc.done
                /\ calc.task.data = [ok |-> TRUE, value |-> ProviderValue(calc.point)]
          /\ n < Len(calc.log) => calc.log[n].backoff # 0
    /\ (calc.done /\ calc.log[Len(calc.log)].ending # "ok") => calc.task.data = NullData

\* C29: a per-point AQI fetch makes 1 to 3 attempts; every failed attempt
\* (network error, timeout, non-2xx response) is followed by a retry while
\* retries remain, after a backoff of 500 ms x attempt number; no backoff
\* follows the last attempt; the first success ends the fetch with its reading.
C29_EveryFailureRetried ==
    calc.fn = "fetchAQIForPoint" =>
        /\ AttemptsWellFormed
        /\ \A n \in 1..Len(calc.log) :
              (calc.log[n].ending \in {"network", "timeout", "non2xx"} /\ n < 3)
                  => calc.log[n].backoff = 500 * n

\* what the code does: an attempt is retried when it threw (network error,
\* timeout, unreadable body); a non-2xx response and an invalid body end the
\* fetch at once with null
C29_ThrownFailureRetried ==
    calc.fn = "fetchAQIForPoint" =>
        /\ AttemptsWellFormed
        /\ \A n \in 1..Len(calc.log) :
              /\ (calc.log[n].ending \in {"network", "timeout", "badjson"} /\ n < 3)
                    => calc.log[n].backoff = 500 * n
              /\ calc.log[n].ending \in {"non2xx", "invalid"} =>
                    /\ calc.log[n].backoff = 0
                    /\ n = Len(calc.log)
                    /\ calc.done /\ calc.task.data = NullData

\* a fetch whose first attempt got a non-2xx response has ended with null
C29_Non2xxEndsFetch ==
    /\ calc.fn = "fetchAQIForPoint"
    /\ calc.done
    /\ calc.log = << [ending |-> "non2xx", backoff |-> 0] >>
    /\ calc.task.data = NullData

\* a network error and a timeout, each followed by its backoff, then a reading
C29_ThirdAttemptSucceeds ==
    /\ calc.fn = "fetchAQIForPoint"
    /\ calc.done
    /\ calc.log = << [ending |-> "network", backoff |-> 500],
                     [ending |-> "timeout", backoff |-> 1000],
                     [ending |-> "ok", backoff |-> 0] >>
    /\ calc.task.data.ok


-----------------------------------------------------------------------------
(* Batches of one runBatchScoring run                                       *)

\* processRoute executions of a run that have started and not yet returned
InFlight(run) ==
    {t \in 1..Len(run.tasks) : run.ts[t].phase \notin {"idle", "returned"}}

StartedTasks(run) == {t \in 1..Len(run.tasks) : run.ts[t].started >= 1}

\* number of the batch a task belongs to, batches of 5 in task-list order
BatchOf(t) == (t - 1) \div 5 + 1

\* C30: within one runBatchScoring run the tasks are started in batches of at
\* most 5 in task-list order; no task of batch i+1 starts before every task of
\* batch i has returned; a 500 ms pause separates consecutive batches and none
\* follows the last batch; hence at most 5 processRoute executions of the run
\* are in flight at any time.
C30_BatchesOfFive ==
    /\ [](\A r \in 1..Len(sched.runs) :
            LET run == sched.runs[r]
                n == Len(run.tasks)
            IN /\ Cardinality(InFlight(run)) <= 5
               /\ \E m \in 0..n : StartedTasks(run) = 1..m
               /\ \A t, u \in StartedTasks(run) :
                     BatchOf(t) < BatchOf(u) => run.ts[t].phase = "returned"
               /\ \A t, u \in InFlight(run) : BatchOf(t) = BatchOf(u)
               /\ run.status = "pause" =>
                     /\ run.timer = 500
                     /\ InFlight(run) = {}
                     /\ StartedTasks(run) # {}
                     /\ StartedTasks(run) # 1..n
               /\ run.status # "pause" => run.timer = 0)
    /\ [][\A r \in 1..Len(sched.runs) :
            LET run == sched.runs[r]
                after == sched'.runs[r]
                new == StartedTasks(after) \ StartedTasks(run)
            IN /\ Cardinality(new) <= 5
               /\ \A t, u \in new : BatchOf(t) = BatchOf(u)
               /\ new # {} =>
                     /\ new = {t \in 1..Len(after.tasks) : BatchOf(t) = BatchOf(CHOOSE u \in new : TRUE)}
                     /\ \/ run.status = "loading" /\ 1 \in new
                        \/ run.status = "pause" /\ 1 \notin new
               /\ (run.status = "pause" /\ after.status # "pause") => new # {}
               /\ (run.status = "batch" /\ after.status = "done") =>
                     StartedTasks(run) = 1..Len(run.tasks)
               /\ (run.status = "batch" /\ after.status = "pause") =>
                     StartedTasks(run) # 1..Len(run.tasks)]_vars

\* the five tasks of the first batch of a run of 6 tasks are all in flight
C30_Witness ==
    \E r \in 1..Len(sched.runs) :
        LET run == sched.runs[r]
        IN /\ Len(run.tasks) = 6
           /\ InFlight(run) = 1..5
           /\ run.ts[6].phase = "idle"

\* the pause between the two batches of a run of 6 tasks
C30_PauseReached ==
    \E r \in 1..Len(sched.runs) :
        LET run == sched.runs[r]
        IN /\ run.status = "pause"
           /\ Len(run.results) = 5
           /\ run.ts[6].phase = "idle"

\* the second batch of a run of 6 tasks is under way
C30_SecondBatchReached ==
    \E r \in 1..Len(sched.runs) :
        LET run == sched.runs[r]
        IN /\ run.status = "batch"
           /\ InFlight(run) = {6}


-----------------------------------------------------------------------------
(* What a scheduler task persists                                           *)

\* task t of run r returns in this step
TaskReturns(r, t) ==
    /\ sched.runs[r].ts[t].phase \notin {"idle", "returned"}
    /\ sched'.runs[r].ts[t].phase = "returned"

OnlyNullReadings(r, t) == sched.runs[r].ts[t].readings = "allNull"

\* the task returns from a state the statement calls a failure: no persisted
\* breakpoints, a fetcher call that rejects (the task returns while awaiting
\* the fetchers), fetchers that returned only null readings, or a
\* scoring-provider call that fails (the task returns while awaiting it)
ReturnsFromFailure(r, t) ==
    LET run == sched.runs[r]
    IN /\ TaskReturns(r, t)
       /\ \/ run.ts[t].phase = "find" /\ TaskBreakpoints(sched.db, run.tasks[t]) = {}
          \/ run.ts[t].phase = "env"
          \/ OnlyNullReadings(r, t)
          \/ run.ts[t].phase = "pathway"

NoBreakpointsNoCall ==
    \A r \in 1..Len(sched.runs) : \A t \in 1..Len(sched.runs[r].tasks) :
        (sched.runs[r].ts[t].phase # "idle"
            /\ TaskBreakpoints(sched.db, sched.runs[r].tasks[t]) = {})
          => sched.runs[r].ts[t].calls = {}

\* C32: a scheduler task that has no persisted breakpoints, whose
\* environmental fetch fails (a fetcher call that rejects, or one that returns
\* only null readings), or whose scoring-provider call fails is recorded as
\* failed and leaves the stored lastComputedScore and lastComputedAt
\* unchanged; a task with no breakpoints issues no provider request.
C32_FailedTaskLeavesScore ==
    /\ []NoBreakpointsNoCall
    /\ [][\A r \in 1..Len(sched.runs) : \A t \in 1..Len(sched.runs[r].tasks) :
            ReturnsFromFailure(r, t) =>
                /\ ~sched'.runs[r].ts[t].result.success
                /\ sched'.db = sched.db]_vars

\* what the code does: the same, except that fetchers that resolved with only
\* null readings are no failure: the task goes on to the scoring provider
C32_FailedTaskLeavesScoreUnlessNulls ==
    /\ []NoBreakpointsNoCall
    /\ [][\A r \in 1..Len(sched.runs) : \A t \in 1..Len(sched.runs[r].tasks) :
            (ReturnsFromFailure(r, t)
                /\ ~(OnlyNullReadings(r, t) /\ sched.runs[r].ts[t].phase = "update")) =>
                /\ ~sched'.runs[r].ts[t].result.success
                /\ sched'.db = sched.db]_vars
    /\ [][\A r \in 1..Len(sched.runs) : \A t \in 1..Len(sched.runs[r].tasks) :
            (TaskReturns(r, t) /\ ~sched'.runs[r].ts[t].result.success)
                => sched'.db = sched.db]_vars

\* a task whose fetchers returned only null readings has succeeded and its
\* route option carries the score computed from them
C32_NullReadingsScored ==
    \E r \in 1..Len(sched.runs) : \E t \in 1..Len(sched.runs[r].tasks) :
        LET run == sched.runs[r]
        IN /\ run.ts[t].readings = "allNull"
           /\ run.ts[t].phase = "returned"
           /\ run.ts[t].result.success
           /\ \E k \in 1..Len(sched.db.routes) :
                 /\ sched.db.routes[k].id = run.tasks[t].routeId
                 /\ sched.db.routes[k].routes[run.tasks[t].routeOptionIndex + 1].lastComputedScore
                       = run.ts[t].score

\* a task without breakpoints has returned its failure
C32_NoBreakpointsFailed ==
    \E r \in 1..Len(sched.runs) : \E t \in 1..Len(sched.runs[r].tasks) :
        /\ sched.runs[r].ts[t].result.error = "No breakpoints found"
        /\ sched.runs[r].ts[t].calls = {}


-----------------------------------------------------------------------------
(* One score-compute request with its two fetcher calls, run to the end     *)

\* no fetcher call has been made yet
FxNotCalled == [FxIdle EXCEPT !.status = "idle"]

\* what a resolved fetcher call hands to the scoring: "null" when no point of
\* any route has a reading
ReadingsOf(results) ==
    IF \A r \in 1..Len(results) : results[r].successfulFetches = 0
    THEN "null" ELSE "ok"

\* a computeWeather / computeAQI call on the request's breakpoints
FetcherCall(kind, req) ==
    [FxIdle EXCEPT !.kind = kind, !.apiKey = api.providers[kind] # "nokey",
                   !.routes = req.breakpoints]

LiveInit ==
    /\ \E providers \in Providers : api = [ApiIdle EXCEPT !.providers = providers]
    /\ fx = FxNotCalled
    /\ bp = BPStart /\ aqiCalc = AQICalcIdle
    /\ sched = SchedIdle /\ calc = CalcIdle

\* the request of a behaviour: no routes (400), one route (3 breakpoints), two
\* routes (7 breakpoints: fetcher batches of 5 and 2), a 1-pair geometry
\* (computeBreakpoints throws)
LiveBodies ==
    {ScoreBody(<<>>),
     ScoreBody(<<RouteData(50, "driving", LineGeometry)>>),
     ScoreBody(<<RouteData(300, "walking", SecondLine), RouteData(50, "driving", LineGeometry)>>),
     ScoreBody(<<RouteData(50, "driving", << <<0, 0>> >>)>>)}

LiveArrives == ScoreArrivesFrom(LiveBodies, 1)

\* line 277: computeWeather(breakpoints) is called
WeatherCalled ==
    /\ \E q \in 1..Len(api.reqs) :
         /\ api.reqs[q].pc = "weather"
         /\ fx.status = "idle"
         /\ fx' = FetcherCall("weather", api.reqs[q])
    /\ UNCHANGED <<bp, aqiCalc, sched, api, calc>>

\* await computeWeather settles: a rejection goes to the catch block, else
\* computeAQI(breakpoints) is called
WeatherSettled ==
    /\ \E q \in 1..Len(api.reqs) :
         /\ api.reqs[q].pc = "weather"
         /\ fx.kind = "weather"
         /\ fx.status \in {"resolved", "rejected"}
         /\ IF fx.status = "rejected"
            THEN /\ api' = Respond(api, q, Caught(fx.error))
                 /\ fx' = fx
            ELSE /\ api' = [api EXCEPT !.reqs[q].pc = "aqi",
                                       !.reqs[q].weather = ReadingsOf(fx.results)]
                 /\ fx' = FetcherCall("aqi", api.reqs[q])
    /\ UNCHANGED <<bp, aqiCalc, sched, calc>>

\* await computeAQI settles: a rejection goes to the catch block, else the
\* routes are scored and the cache writes issued
AqiSettled ==
    /\ \E q \in 1..Len(api.reqs) :
         /\ api.reqs[q].pc = "aqi"
         /\ fx.kind = "aqi"
         /\ fx.status \in {"resolved", "rejected"}
         /\ api' = IF fx.status = "rejected"
                   THEN Respond(api, q, Caught(fx.error))
                   ELSE Scored(api, q, api.reqs[q].weather, ReadingsOf(fx.results))
    /\ UNCHANGED <<bp, aqiCalc, fx, sched, calc>>

\* the steps the handler and its outbound calls take once a request is in
LiveProgress ==
    \/ ScoreCacheRead
    \/ WeatherCalled
    \/ FxStart
    \/ FxAttemptSettles
    \/ FxBackoffElapsed
    \/ FxBatchResolved
    \/ WeatherSettled
    \/ AqiSettled
    \/ ScoreStoreSettles

LiveNext == LiveArrives \/ LiveProgress

\* every outbound attempt settles or is aborted by its timeout, every cache
\* call settles, every timer fires: no step of the request stays enabled for
\* ever without being taken
SpecRequestLive == LiveInit /\ [][LiveNext]_vars /\ WF_vars(LiveProgress)

FetcherRunning == fx.status \in {"init", "fetching"}
FetcherSettled == fx.status \in {"resolved", "rejected"}

\* the request passed validation and no response has been sent yet
Validated(q) == Len(api.reqs) >= q /\ api.reqs[q].pc # "done"
Responded(q) ==
    /\ Len(api.reqs) >= q
    /\ api.reqs[q].pc = "done"
    /\ api.reqs[q].resp.status \in {200, 500}

\* C33: provided every outbound HTTP attempt settles or is aborted by its own
\* timeout and every cache call settles, each computeAQI / computeWeather
\* call eventually resolves or rejects and each score-compute request that
\* passed validation eventually sends its response; nothing cancels a
\* request in mid-flight: a running fetcher call stays the same call until it
\* has settled, and a request leaves the handler only by its response.
C33_RequestRunsToCompletion ==
    /\ (FetcherRunning ~> FetcherSettled)
    /\ (Validated(1) ~> Responded(1))
    /\ [][FetcherRunning =>
            /\ fx'.status \in {"init", "fetching", "resolved", "rejected"}
            /\ fx'.kind = fx.kind /\ fx'.routes = fx.routes
            /\ fx.tasks # <<>> => fx'.tasks = fx.tasks]_vars
    /\ [][Validated(1) => (Validated(1)' \/ Responded(1)')]_vars
    /\ [][Len(api.reqs) = 1 => Len(api.reqs') = 1]_vars

\* the request has been answered 200 after an AQI call of two batches in
\* which a point was retried and came back null
C33_Witness ==
    /\ Responded(1)
    /\ api.reqs[1].resp.status = 200
    /\ fx.kind = "aqi" /\ fx.status = "resolved"
    /\ Len(fx.batchLog) >= 2
    /\ \E t \in 1..Len(fx.ts) : fx.ts[t].attempt >= 1 /\ ~fx.ts[t].data.ok

\* the weather call rejected (key not configured) and the request was
\* answered 500
C33_RejectedAnswered ==
    /\ Responded(1)
    /\ api.reqs[1].resp.status = 500
    /\ fx.kind = "weather" /\ fx.status = "rejected"


-----------------------------------------------------------------------------
(* Breakpoints through the database: saveRoute writes, the scheduler reads  *)

\* BreakPoint.find({routeId, routeOptionIndex})
FindDocs(docs, routeId, option) ==
    {d \in docs : d.routeId = routeId /\ d.routeOptionIndex = option}

\* .sort({pointIndex: 1}) and [...breakpoints].sort((a, b) => a.pointIndex - b.pointIndex)
RECURSIVE SortByPointIndex(_)
SortByPointIndex(found) ==
    IF found = {} THEN <<>>
    ELSE LET first == CHOOSE d \in found : \A e \in found : d.pointIndex <= e.pointIndex
         IN <<first>> \o SortByPointIndex(found \ {first})

\* a conversion that reads the pair as [lat, lon]
breakpointsToRoutePointsLatFirst(sorted) ==
    [index \in 1..Len(sorted) |->
        [lat |-> sorted[index].coordinates[1], lon |-> sorted[index].coordinates[2]]]

\* point_<index + 1> = {lat: coordinates[1], lon: coordinates[0]} (0-based
\* in the code, 1-based tuples here)
breakpointsToRoutePoints(sorted) ==
    [index \in 1..Len(sorted) |->
        [lat |-> sorted[index].coordinates[2], lon |-> sorted[index].coordinates[1]]]

RoundTripInit ==
    /\ \E routes \in ExtractInputs, routeId \in 1..2 :
         calc = [fn |-> "roundTrip", done |-> FALSE, stage |-> "extract",
                 routes |-> routes, routeId |-> routeId,
                 bps |-> <<>>, docs |-> {}, loaded |-> <<>>]
    /\ bp = BPStart /\ aqiCalc = AQICalcIdle /\ fx = FxIdle
    /\ sched = SchedIdle /\ api = ApiIdle

\* saveRoute lines 580-623: the breakpoints are computed (a throw leaves the
\* list empty) and one document per slot is inserted
RoundTripSave ==
    /\ calc.fn = "roundTrip"
    /\ calc.stage = "extract"
    /\ LET bps == Outcome(calc.routes).value
       IN calc' = [calc EXCEPT !.stage = "saved", !.bps = bps,
                               !.docs = DocsOf(calc.routeId, bps)]
    /\ UNCHANGED <<bp, aqiCalc, fx, sched, api>>

\* processRoute lines 53-67, for every route option of the saved route
RoundTripLoad ==
    /\ calc.fn = "roundTrip"
    /\ calc.stage = "saved"
    /\ calc' = [calc EXCEPT
                  !.stage = "loaded", !.done = TRUE,
                  !.loaded = [o \in 1..Len(calc.bps) |->
                                 breakpointsToRoutePoints(
                                     SortByPointIndex(FindDocs(calc.docs, calc.routeId, o - 1)))]]
    /\ UNCHANGED <<bp, aqiCalc, fx, sched, api>>

RoundTripNext == RoundTripSave \/ RoundTripLoad

SpecRoundTrip == RoundTripInit /\ [][RoundTripNext]_vars

\* C34: for breakpoints persisted by save-route (one record per coordinate,
\* pointIndex = slot - 1, location [lon, lat], routeOptionIndex = position of
\* the route option), the scheduler's load-and-convert of the records of
\* (routeId, routeOptionIndex i) reproduces the i-th RouteBreakpoints: the
\* same slots and the same {lat, lon} in each slot.
C34_SaveLoadRoundTrip ==
    calc.fn = "roundTrip" =>
        /\ calc.stage # "extract" =>
              /\ Cardinality(calc.docs) = Len(Flatten(calc.bps))
              /\ \A d \in calc.docs :
                    /\ d.routeId = calc.routeId
                    /\ d.routeOptionIndex \in 0..(Len(calc.bps) - 1)
                    /\ d.pointIndex \in 0..(Len(calc.bps[d.routeOptionIndex + 1]) - 1)
                    /\ d.coordinates =
                          <<calc.bps[d.routeOptionIndex + 1][d.pointIndex + 1].lon,
                            calc.bps[d.routeOptionIndex + 1][d.pointIndex + 1].lat>>
        /\ calc.done =>
              /\ Len(calc.loaded) = Len(calc.bps)
              /\ \A o \in 1..Len(calc.bps) :
                    /\ DOMAIN calc.loaded[o] = DOMAIN calc.bps[o]
                    /\ \A k \in DOMAIN calc.bps[o] :
                          /\ calc.loaded[o][k].lat = calc.bps[o][k].lat
                          /\ calc.loaded[o][k].lon = calc.bps[o][k].lon

\* three route options were saved and loaded; one has 3 slots or more, and a
\* slot whose latitude and longitude differ
C34_Witness ==
    /\ calc.fn = "roundTrip"
    /\ calc.done
    /\ Len(calc.loaded) = 3
    /\ \E o \in 1..3 :
          /\ Len(calc.loaded[o]) >= 3
          /\ \E k \in 1..Len(calc.loaded[o]) : calc.loaded[o][k].lat # calc.loaded[o][k].lon


-----------------------------------------------------------------------------
(* The is-running flag over the life of the runs                            *)

TickRunsNext == SchedTick \/ BatchNext

\* interval ticks and the runs they start; every await of a run settles: the
\* steps of a run are taken when they stay enabled; ticks are not forced
SpecSchedulerLive == SchedInit /\ [][TickRunsNext]_vars /\ WF_vars(BatchNext)

\* run r ends in this step
RunEnds(r) == sched.runs[r].status # "done" /\ sched'.runs[r].status = "done"

\* C35: whenever a tick-initiated run ends, normally or by a thrown error,
\* the is-running flag is reset to false; so the flag is never left
\* permanently true and, if runs terminate, a tick that fires after the end of
\* a run always starts a new run.
C35_FlagResetWhenRunEnds ==
    /\ [][\A r \in 1..Len(sched.runs) :
            (RunEnds(r) /\ sched.runs[r].origin = "tick") => ~sched'.isRunning]_vars
    /\ [](sched.isRunning <=> TickRunsInProgress(sched) # {})
    /\ (sched.isRunning ~> ~sched.isRunning)
    /\ [][(sched'.ticks = sched.ticks + 1 /\ TickRunsInProgress(sched) = {}) =>
            /\ Len(sched'.runs) = Len(sched.runs) + 1
            /\ sched'.runs[Len(sched'.runs)].origin = "tick"
            /\ sched'.runs[Len(sched'.runs)].status = "loading"
            /\ sched'.isRunning]_vars

\* a tick-initiated run has ended on a rejected Route.find, the flag is
\* down, and a later tick has started a second tick-initiated run
C35_Witness ==
    /\ Len(sched.runs) >= 2
    /\ \E r \in 1..Len(sched.runs) :
          /\ sched.runs[r].origin = "tick"
          /\ sched.runs[r].status = "done"
          /\ ~sched.runs[r].loaded
          /\ \E r2 \in (r + 1)..Len(sched.runs) :
                sched.runs[r2].origin = "tick" /\ sched.runs[r2].status # "done"
    /\ sched.isRunning

\* a tick-initiated run has ended normally with a scored task; the flag is down
C35_NormalEndReached ==
    /\ ~sched.isRunning
    /\ \E r \in 1..Len(sched.runs) :
          /\ sched.runs[r].origin = "tick"
          /\ sched.runs[r].status = "done"
          /\ \E k \in 1..Len(sched.runs[r].results) : sched.runs[r].results[k].success


\* executions of runBatchScoring that have started and not returned
RunsInProgress == {r \in 1..Len(sched.runs) : sched.runs[r].status # "done"}

\* C36: at most one execution of runBatchScoring is in progress in the
\* process at any time, counting the run fired at process startup and runs
\* started by the manual trigger as well as runs started by interval ticks.
C36_OneRunAtATime == Cardinality(RunsInProgress) <= 1

\* what the flag gives: at most one tick-initiated run, next to which a run
\* started through runManualBatchScoring may be in progress
C36_OneTickRunAtATime ==
    /\ Cardinality(TickRunsInProgress(sched)) <= 1
    /\ Cardinality(RunsInProgress) <= 2

\* the startup run and a tick-initiated run are both in the middle of their
\* batch, on the same route option
C36_RunsOverlap ==
    \E r1, r2 \in RunsInProgress :
        /\ sched.runs[r1].origin = "startup" /\ sched.runs[r2].origin = "tick"
        /\ sched.runs[r1].status = "batch" /\ sched.runs[r2].status = "batch"
        /\ sched.runs[r1].ts[1].phase = "update" /\ sched.runs[r2].ts[1].phase = "update"


-----------------------------------------------------------------------------
(* What the score-cache key determines                                      *)

ServedFromCache(q) ==
    /\ api.reqs[q].pc = "done"
    /\ api.reqs[q].resp.status = 200
    /\ api.reqs[q].resp.cached

\* C37: the score-cache key determines the answer: two validated requests with
\* the same key, computed fresh against identical provider readings, produce
\* identical data.routes (sub-scores, overallScore, breakpointCount, distance,
\* duration, prior score and delta); hence a response served from the cache
\* equals what a fresh computation of the current request would return.
C37_CachedEqualsFresh ==
    /\ \A q \in 1..Len(api.reqs) :
          ServedFromCache(q) => api.reqs[q].resp.data = FreshData(q)
    /\ \A q1, q2 \in 1..Len(api.reqs) :
          (api.reqs[q1].cacheKey = api.reqs[q2].cacheKey
              /\ BreakpointsOf[api.reqs[q1].body.routes].status # "threw"
              /\ BreakpointsOf[api.reqs[q2].body.routes].status # "threw")
            => FreshData(q1) = FreshData(q2)

\* what the key does determine: a response served from the cache agrees with
\* a fresh computation on the travel mode, the traffic value and the readings
\* scored for each route, and it is the data of some request with the same key
C37_CachedAgreesOnKeyedFields ==
    \A q \in 1..Len(api.reqs) :
        ServedFromCache(q) =>
            LET got == api.reqs[q].resp.data.routes
                fresh == FreshData(q).routes
            IN /\ Len(got) = Len(fresh)
               /\ \A i \in 1..Len(got) :
                     /\ got[i].travelMode = fresh[i].travelMode
                     /\ got[i].traffic = fresh[i].traffic
                     /\ got[i].weather = fresh[i].weather
                     /\ got[i].aqi = fresh[i].aqi
               /\ \E q0 \in 1..Len(api.reqs) :
                     /\ api.reqs[q0].cacheKey = api.reqs[q].cacheKey
                     /\ ~api.reqs[q0].resp.cached
                     /\ api.reqs[q].resp.data = FreshData(q0)

\* a request for a 300 m route was answered from the cache with the data of
\* a 50 m route of the same geometry: distance 50 and 3 breakpoints, where a
\* fresh computation gives distance 300 and 4 breakpoints
C37_StaleDistanceServed ==
    \E q \in 1..Len(api.reqs) :
        /\ ServedFromCache(q)
        /\ api.reqs[q].body.routes[1].distance = 300
        /\ api.reqs[q].resp.data.routes[1].distance = 50
        /\ api.reqs[q].resp.data.routes[1].breakpointCount
              # FreshData(q).routes[1].breakpointCount


-----------------------------------------------------------------------------
(* save-route on submissions of 1 to 5 route options                        *)

\* the breakpoint cache is empty, or holds under searchId 1 what an earlier
\* score-compute request stored for its routes
SaveInit ==
    /\ \E cache \in {{}} \cup {{[key |-> 1, value |-> BreakpointsOf[routes].result]} :
                                  routes \in SearchedRoutes} :
         api = [ApiIdle EXCEPT !.bpCache = cache]
    /\ bp = BPStart /\ aqiCalc = AQICalcIdle /\ fx = FxIdle
    /\ sched = SchedIdle /\ calc = CalcIdle

\* saveRoute arrives with one of the submissions
SaveCaseArrives ==
    /\ Len(api.saves) < MaxSaves
    /\ \E body \in SaveCases :
         api' = [api EXCEPT !.saves = Append(@, NewSaveRequest(body))]
    /\ UNCHANGED <<bp, aqiCalc, fx, sched, calc>>

SaveNext == SaveCaseArrives \/ SaveRouteCreated \/ SaveCacheRead \/ SaveInserted

SpecSave == SaveInit /\ [][SaveNext]_vars

Saved201(s) == api.saves[s].pc = "done" /\ api.saves[s].status = 201

\* BreakPoint documents of route option o (0-based) of the route of save s
OptionDocs(s, o) ==
    {b \in api.db.breakpoints :
        b.routeId = api.saves[s].routeId /\ b.routeOptionIndex = o}

\* C38: after save-route responds 201 for a submission of 1..5 route options,
\* at least one BreakPoint record exists for every (routeId, routeOptionIndex)
\* of the saved route.
C38_EveryOptionHasBreakpoints ==
    \A s \in 1..Len(api.saves) :
        Saved201(s) =>
            \A o \in 0..(Len(api.saves[s].body.routes) - 1) : OptionDocs(s, o) # {}

\* what the code ensures: the same for a submission that took nothing from
\* the cache and on which computeBreakpoints does not throw (at most 3 route
\* options, each with a geometry of 2 pairs or more)
C38_UpToThreeOptionsRecomputed ==
    \A s \in 1..Len(api.saves) :
        (Saved201(s) /\ ~api.saves[s].hit
            /\ BreakpointsOf[api.saves[s].body.routes].status # "threw") =>
            \A o \in 0..(Len(api.saves[s].body.routes) - 1) : OptionDocs(s, o) # {}

\* a submission of 5 route options has been answered 201; the route is
\* stored with its 5 options and no BreakPoint document exists
C38_FiveOptionsNoBreakpoints ==
    \E s \in 1..Len(api.saves) :
        /\ Saved201(s)
        /\ Len(api.saves[s].body.routes) = 5
        /\ \E k \in 1..Len(api.db.routes) :
              api.db.routes[k].id = api.saves[s].routeId /\ Len(api.db.routes[k].routes) = 5
        /\ api.db.breakpoints = {}

\* a submission of 3 route options is saved with breakpoints for each
C38_ThreeOptionsSaved ==
    \E s \in 1..Len(api.saves) :
        /\ Saved201(s)
        /\ Len(api.saves[s].body.routes) = 3
        /\ \A o \in 0..2 : OptionDocs(s, o) # {}

\* C39: when save-route finds breakpoints in the cache under the supplied
\* searchId, the BreakPoint records it persists equal those computeBreakpoints
\* would produce from the submitted routes (same number of route options,
\* same coordinates per option); in particular every persisted
\* routeOptionIndex is below the number of submitted route options.
C39_CachedEqualsRecomputed ==
    \A s \in 1..Len(api.saves) :
        (Saved201(s) /\ api.saves[s].hit) =>
            /\ {b \in api.db.breakpoints : b.routeId = api.saves[s].routeId}
                  = DocsOf(api.saves[s].routeId, BreakpointsOf[api.saves[s].body.routes].result)
            /\ \A b \in api.db.breakpoints :
                  b.routeId = api.saves[s].routeId
                      => b.routeOptionIndex < Len(api.saves[s].body.routes)

\* what the code ensures: the persisted records are those of the cached
\* entry, whatever routes were submitted
C39_CachedEntryPersisted ==
    \A s \in 1..Len(api.saves) :
        (Saved201(s) /\ api.saves[s].hit) =>
            \E e \in api.bpCache :
                /\ e.key = api.saves[s].body.searchId.id
                /\ {b \in api.db.breakpoints : b.routeId = api.saves[s].routeId}
                      = DocsOf(api.saves[s].routeId, e.value)

\* one route option was submitted with the searchId of a two-route search:
\* records with routeOptionIndex 1 are persisted for a route of one option
C39_IndexOutOfRange ==
    \E s \in 1..Len(api.saves) :
        /\ Saved201(s) /\ api.saves[s].hit
        /\ Len(api.saves[s].body.routes) = 1
        /\ OptionDocs(s, 1) # {}

\* the searchId is that of a search for the submitted route: the persisted
\* records are those of a recomputation
C39_MatchingSearch ==
    \E s \in 1..Len(api.saves) :
        /\ Saved201(s) /\ api.saves[s].hit
        /\ {b \in api.db.breakpoints : b.routeId = api.saves[s].routeId}
              = DocsOf(api.saves[s].routeId, BreakpointsOf[api.saves[s].body.routes].result)


-----------------------------------------------------------------------------
(* Readings without a numeric AQI value                                     *)

\* the readings of the route that carry a number
NumericPoints(points) == SelectSeq(points, LAMBDA r : r.k = "num")

\* the readings the code counts: those that pass its test
CountedPoints(points) == SelectSeq(points, IsValidAQI)

\* C40: a reading whose aqi value is absent or not a number (undefined, null,
\* an empty string, a non-numeric string such as "-") is excluded from the
\* AQI average and from the count of valid readings; it is never counted as
\* AQI 0, so a route whose readings all lack a numeric AQI value scores 0 with
\* category "Unknown - No Data".
C40_NonNumericExcluded ==
    aqiCalc.done =>
        /\ ValidPoints(aqiCalc.points) = Len(NumericPoints(aqiCalc.points))
        /\ aqiCalc.out = calculateAQIScore(NumericPoints(aqiCalc.points))
        /\ NumericPoints(aqiCalc.points) = <<>> =>
              /\ aqiCalc.out.score = 0
              /\ aqiCalc.out.category = "Unknown - No Data"

\* what the code does: a null point, an undefined aqi and "-" are excluded;
\* aqi: null and aqi: "" pass the test and enter the average as 0
C40_UndefinedAndDashExcluded ==
    aqiCalc.done =>
        /\ ValidPoints(aqiCalc.points) = Len(CountedPoints(aqiCalc.points))
        /\ \A p \in 1..Len(CountedPoints(aqiCalc.points)) :
              CountedPoints(aqiCalc.points)[p].k \in {"num", "nullval", "empty"}
        /\ aqiCalc.out = calculateAQIScore(CountedPoints(aqiCalc.points))
        /\ (\A p \in 1..Len(aqiCalc.points) :
                aqiCalc.points[p].k \in {"null", "undefined", "dash"}) =>
              /\ aqiCalc.out.score = 0
              /\ aqiCalc.out.category = "Unknown - No Data"

\* a route whose readings are {aqi: null} and {aqi: ""} is scored as AQI 0:
\* score 100
C40_NullScoredAsClean ==
    /\ aqiCalc.done
    /\ Len(aqiCalc.points) = 2
    /\ aqiCalc.points[1].k = "nullval" /\ aqiCalc.points[2].k = "empty"
    /\ aqiCalc.out.aqi = 0
    /\ aqiCalc.out.score = 1000

\* a route whose readings are undefined and "-" scores 0, no data
C40_DashExcluded ==
    /\ aqiCalc.done
    /\ Len(aqiCalc.points) = 2
    /\ aqiCalc.points[1].k = "undefined" /\ aqiCalc.points[2].k = "dash"
    /\ aqiCalc.out = NoDataAQIScore

=============================================================================
